---- MODULE Spec2Model ----
(***************************************************************************)
(* A model of euporie's application coordination layer:                    *)
(*   src/euporie/core/app.py  (EuporieApp: tabs, cursor, cleanup, close)   *)
(*   src/euporie/app/tui.py   (TuiApp: dialog, exit chain, help_logs)      *)
(* Indices are Python's (0-based) in tab_idx; sequences are 1-based.       *)
(***************************************************************************)
EXTENDS Integers, Sequences, FiniteSets, Bags, TLC

\* ------------------------------------------------------------------ bounds
MaxTabs == 3
MaxRequests == 2

\* ---------------------------------------------------------------- controls
\* Focusable elements of the layout.  A tab's control is the tab's id (>= 1).
Logo == 0
DlgButton == -1
DlgText == -2

\* A LogView tab has no "path" attribute: getattr(tab, "path", "") gives "".
NoPath == 0

VARIABLES
    tabs,            \* self.tabs: the ordered tab collection (tab ids)
    tab_idx,         \* self._tab_idx
    tabPath,         \* the path of every open tab (a function of its id)
    created,         \* number of tab objects created so far (the last id)
    render_counter,  \* Application.render_counter: 0, or 1 for any value > 0
    focus,           \* layout.current_control
    pending,         \* bag of close requests whose callback is outstanding
    chains,          \* the close chains built by exit(), with their history
    exited,          \* number of calls of the real exit (super().exit)
    has_dialog,      \* self.has_dialog
    dialogs,         \* self.dialogs: the owned overlay list
    graphics,        \* self.graphics: the weakly held overlay set
    requests,        \* number of exit() and close_tab() calls that asked a tab to close
    lastOp,          \* the last operation performed and how it ended
    phase,           \* where the loading of the application stands
    is_running,      \* Application._is_running: the display is drawn only while set
    cpr_futures,     \* len(renderer._waiting_for_cpr_futures): keeps input processed
    input_closed,    \* self.input.closed
    using_vt100,     \* self.using_vt100
    queries_sent,    \* number of term_info.send_all() calls
    ready_runs,      \* number of runs of terminal_ready
    trace,           \* the side effects of terminal_ready, in the order they happened
    logged,          \* the messages written to the log
    subscribed,      \* the terminal queries whose event calls update_style
    polling,         \* the state of the _poll_terminal_colors task
    polls,           \* number of rounds of colour queries the polling task sent
    polling_interval, \* config.terminal_polling_interval
    hooks_run,       \* the post_load_callables invoked, in order
    config,          \* config.color_scheme, syntax_theme, custom colours
    term_colors,     \* term_info.colors.value
    renderer_style,  \* self.renderer.style
    style_transformation,  \* self.style_transformation
    builds           \* the last build of the style, after one remembered earlier build

\* The state of the tabs, the dialogs and the shutdown
appvars == <<tabs, tab_idx, tabPath, created, render_counter, focus, pending, chains,
             exited, has_dialog, dialogs, graphics, requests>>

\* The state of the loading sequence
lifecycle == <<phase, is_running, cpr_futures, input_closed, using_vt100,
               queries_sent, ready_runs, trace, logged, subscribed, polling, polls,
               polling_interval, hooks_run>>

\* The state of the styling
styling == <<config, term_colors, renderer_style, style_transformation, builds>>

vars == <<tabs, tab_idx, tabPath, created, render_counter, focus, pending, chains,
          exited, has_dialog, dialogs, graphics, requests, lastOp,
          phase, is_running, cpr_futures, input_closed, using_vt100,
          queries_sent, ready_runs, trace, logged, subscribed, polling, polls,
          polling_interval, hooks_run, config, term_colors, renderer_style, style_transformation,
          builds>>

\* ------------------------------------------------------------- sequences
InSeq(x, s) == \E i \in 1..Len(s) : s[i] = x

IndexOf(x, s) == IF InSeq(x, s) THEN CHOOSE i \in 1..Len(s) :
                                        s[i] = x /\ \A j \in 1..(i-1) : s[j] # x
                 ELSE 0

\* A removal that drops the head of the list whatever x is (list.pop(0))
RemoveHead(s, x) == Tail(s)

\* list.remove(x): drops the first occurrence
RemoveFirst(s, x) ==
    LET i == IndexOf(x, s)
    IN  IF i = 0 THEN s ELSE SubSeq(s, 1, i-1) \o SubSeq(s, i+1, Len(s))

Count(x, s) == Cardinality({i \in 1..Len(s) : s[i] = x})

MinOf(S) == CHOOSE m \in S : \A n \in S : m <= n

\* The record of the last operation: "call" (a tab, cursor or focus
\* operation), "callback" (a close request completed or declined),
\* "dialog", "dialog_noop", "dismiss", "key", "poll", "poll_send", "config",
\* "pre_run", "task" (a step of
\* await_terminal_feedback), "response" (a terminal response read from the
\* input), "update_style", "handle_exception"; and the exception it raised.
Op(name, err) == [op |-> name, err |-> err]

\* ------------------------------------------------------------------ paths
\* Raw paths handed to open_file.  parse_path normalises a raw path: the raw
\* path MaxTabs+2 is a second spelling of path 1.  get_file_tab is the hook
\* by which an application names the tab class for a path (the base class
\* names none): the parsed path MaxTabs+1 is a file type without a tab class.
RawPaths == 1..(MaxTabs + 2)

ParsePath(r) == IF r = MaxTabs + 2 THEN 1 ELSE r

GetFileTab(r) == ParsePath(r) # MaxTabs + 1

\* ----------------------------------------------------------------- layout
\* The controls of the layout: the logo, one control per open tab, and the
\* controls of the dialogs in the overlay list.
DialogControls(dlgs) ==
    (IF dlgs # <<>> THEN {DlgButton} ELSE {})
    \cup (IF \E i \in 1..Len(dlgs) : dlgs[i].kind = "file" THEN {DlgText} ELSE {})

FindAllControls(ts, dlgs) ==
    {Logo} \cup {ts[i] : i \in 1..Len(ts)} \cup DialogControls(dlgs)

\* The logo is focusable only while no tab is open (focusable=~have_tabs).
IsFocusable(c, ts) == IF c = Logo THEN ts = <<>> ELSE TRUE

\* Layout.focus(control): ValueError unless the control is in the layout and
\* focusable.
CanFocus(c, ts, dlgs) == c \in FindAllControls(ts, dlgs) /\ IsFocusable(c, ts)

\* The focusable windows in layout order: menu bar (logo), body (tabs),
\* floats (dialog body, dialog buttons).
FocusableWindows(ts, dlgs) ==
    (IF ts = <<>> THEN <<Logo>> ELSE <<>>) \o ts
    \o (IF DlgText \in DialogControls(dlgs) THEN <<DlgText>> ELSE <<>>)
    \o (IF DlgButton \in DialogControls(dlgs) THEN <<DlgButton>> ELSE <<>>)

\* Layout.focus_next(): the window after the current one, cyclically; the
\* first one if the current window is not among them; nothing if none is.
FocusNext(fc, ts, dlgs) ==
    LET w == FocusableWindows(ts, dlgs)
        i == IndexOf(fc, w)
    IN  IF w = <<>> THEN fc
        ELSE IF i = 0 THEN w[1]
        ELSE w[(i % Len(w)) + 1]

\* ------------------------------------------------------ the tab collection
\* max(0, min(idx, len - 1))
Clamp(idx, n) ==
    LET m == IF idx < n - 1 THEN idx ELSE n - 1
    IN  IF m > 0 THEN m ELSE 0

\* A read of the `tab` property that follows the focus before any paint
TabIdxAfterReadAnyTime(ts, idx, rc, fc) ==
    IF ts = <<>> THEN idx
    ELSE LET F == {i \in 1..Len(ts) : fc = ts[i]}
             d == IF F # {} THEN MinOf(F) - 1 ELSE idx
         IN  Clamp(d, Len(ts))

\* The cursor after reading the `tab` property: the first tab holding focus
\* wins once a paint has happened, and the cursor is clamped into range.
TabIdxAfterRead(ts, idx, rc, fc) ==
    IF ts = <<>> THEN idx
    ELSE LET F == {i \in 1..Len(ts) : rc > 0 /\ fc = ts[i]}
             d == IF F # {} THEN MinOf(F) - 1 ELSE idx
         IN  Clamp(d, Len(ts))

\* The `tab` property's value: 0 stands for None.
CurrentTab(ts, idx, rc, fc) ==
    IF ts = <<>> THEN 0 ELSE ts[TabIdxAfterRead(ts, idx, rc, fc) + 1]

\* The tab_idx setter: value % len(self.tabs); the caller handles len = 0.
WrapIdx(value, n) == value % n

\* A cleanup that removes the tab and neither re-reads the current tab nor
\* moves the focus
CleanupNoRefocus(ts, idx, rc, fc, dlgs, t) ==
    IF ~InSeq(t, ts)
    THEN [err |-> "ValueError", tabs |-> ts, idx |-> idx, focus |-> fc]
    ELSE [err |-> "none", tabs |-> RemoveFirst(ts, t), idx |-> idx, focus |-> fc]

\* cleanup_closed_tab(tab) on the state (ts, idx, fc): list.remove raises
\* ValueError if the tab is not in the list; otherwise the current tab is
\* focused, or focus_next() is tried when no tab is left.
CleanupClosedTab(ts, idx, rc, fc, dlgs, t) ==
    IF ~InSeq(t, ts)
    THEN [err |-> "ValueError", tabs |-> ts, idx |-> idx, focus |-> fc]
    ELSE LET ts2 == RemoveFirst(ts, t)
             i2 == TabIdxAfterRead(ts2, idx, rc, fc)
         IN  IF ts2 # <<>>
             THEN [err |-> "none", tabs |-> ts2, idx |-> i2, focus |-> ts2[i2 + 1]]
             ELSE [err |-> "none", tabs |-> ts2, idx |-> idx,
                   focus |-> FocusNext(fc, ts2, dlgs)]

\* The paths of the tab objects: tp with tab id given path p, and tp kept
\* for the tabs of ts only (a removed tab's path is never read again).
WithPath(tp, id, p) == [t \in DOMAIN tp \cup {id} |-> IF t = id THEN p ELSE tp[t]]

PathsOf(tp, ts) == [t \in {ts[i] : i \in 1..Len(ts)} |-> tp[t]]

\* Tab.focus(): the tab asks the application to show it (focus_tab), which
\* sets the cursor to the tab's index and focuses it.
TabFocus(ts, t) == [idx |-> WrapIdx(IndexOf(t, ts) - 1, Len(ts)), focus |-> t]

\* An open_file that does not look for a tab already showing the path
OpenFileResNoCheck(ts, idx, fc, tp, n, r) ==
    LET pp == ParsePath(r)
        same == [tabs |-> ts, idx |-> idx, focus |-> fc, tabPath |-> tp,
                 new |-> 0]
    IN  IF ~GetFileTab(r) THEN same
        ELSE LET id == n + 1
                 ts2 == Append(ts, id)
                 f == TabFocus(ts2, id)
             IN  [tabs |-> ts2, idx |-> f.idx, focus |-> f.focus,
                  tabPath |-> WithPath(tp, id, pp), new |-> id]

\* open_file(path) on (ts, idx, fc, tp): nothing happens if a tab with the
\* parsed path is open or no tab class exists; otherwise a tab is created,
\* appended and focused.
OpenFileRes(ts, idx, fc, tp, n, r) ==
    LET pp == ParsePath(r)
        same == [tabs |-> ts, idx |-> idx, focus |-> fc, tabPath |-> tp,
                 new |-> 0]
    IN  IF \E i \in 1..Len(ts) : tp[ts[i]] = pp THEN same
        ELSE IF ~GetFileTab(r) THEN same
        ELSE LET id == n + 1
                 ts2 == Append(ts, id)
                 f == TabFocus(ts2, id)
             IN  [tabs |-> ts2, idx |-> f.idx, focus |-> f.focus,
                  tabPath |-> WithPath(tp, id, pp), new |-> id]

\* Whether open_file(r) would create a tab object
WouldCreate(ts, tp, r) ==
    /\ ~\E i \in 1..Len(ts) : tp[ts[i]] = ParsePath(r)
    /\ GetFileTab(r)

\* ----------------------------------------------------------- close chains
\* zip(self.tabs, self.tabs[1:]): the (close_tab, cleanup_tab) pairs
ZipTabs(ts) == [i \in 1..(Len(ts) - 1) |-> <<ts[i], ts[i + 1]>>]

\* A chain that starts from the first tab: self.tabs[0]
StartTabFirst(ts) == ts[1]

\* The tab exit() asks to close first: self.tabs[-1]
StartTab(ts) == ts[Len(ts)]

\* A close request: the tab asked, the chain it belongs to (0: a close_tab
\* request) and the index of its callback in the chain (0: final_cb; i >= 1:
\* the callback made from the i-th pair).
Request(t, c, i) == [tab |-> t, chain |-> c, cb |-> i]

NewChain(ts, pend) ==
    [pairs |-> ZipTabs(ts), atExit |-> ts, asked |-> <<StartTab(ts)>>,
     cleaned |-> <<>>, declined |-> {}, alone |-> pend = EmptyBag]

\* Another operation touched the collection or asked a tab to close: no
\* chain runs alone any more.
NotAlone(chs) == [c \in 1..Len(chs) |-> [chs[c] EXCEPT !.alone = FALSE]]

NotAloneBut(chs, k) ==
    [c \in 1..Len(chs) |-> IF c = k THEN chs[c] ELSE [chs[c] EXCEPT !.alone = FALSE]]

Running == exited = 0

\* ---------------------------------------------------------------- styling
\* The values of config.color_scheme
Schemes == {"default", "inverse", "light", "dark", "white", "black", "custom"}

\* The values of config.syntax_theme
SyntaxThemes == {"default", "monokai"}

\* The values of a custom colour: unset, or a colour
CustomColors == {"", "#c0ffee"}

\* The values of term_info.colors.value: the terminal's default pair
TermColorValues == {[fg |-> "#ffffff", bg |-> "#000000"],
                    [fg |-> "#101010", bg |-> "#fafafa"]}

\* theme_colors: the fg/bg pair of the schemes that have one
ThemeColors(cfg, term) ==
    [k \in {"light", "dark", "white", "black", "default", "custom"} |->
        CASE k = "light" -> [fg |-> "#202020", bg |-> "#F0F0F0"]
          [] k = "dark" -> [fg |-> "#F0F0F0", bg |-> "#202020"]
          [] k = "white" -> [fg |-> "#000000", bg |-> "#FFFFFF"]
          [] k = "black" -> [fg |-> "#FFFFFF", bg |-> "#000000"]
          [] k = "default" -> term
          [] k = "custom" -> [fg |-> cfg.custom_foreground_color,
                              bg |-> cfg.custom_background_color]]

\* base_colors: theme_colors.get(config.color_scheme, theme_colors["default"])
BaseColors(cfg, term) ==
    LET tc == ThemeColors(cfg, term)
    IN  IF cfg.color_scheme \in DOMAIN tc THEN tc[cfg.color_scheme] ELSE tc["default"]

\* A colour given to add_color as it is, empty or not
PaletteColorNoFallback(color, name, term) == color

\* The colour given to add_color: color or theme_colors["default"][name]
PaletteColor(color, name, term) == IF color = "" THEN term[name] ELSE color

\* self.color_palette: a new palette with the base colours and the highlight
ColorPalette(cfg, term) ==
    LET base == BaseColors(cfg, term)
    IN  [fg |-> PaletteColor(base.fg, "fg", term),
         bg |-> PaletteColor(base.bg, "bg", term),
         hl |-> "ansiblue"]

\* The style transformations, merged with their conditions swapped
StyleTransformationsSwapped(cfg, term) ==
    LET base == BaseColors(cfg, term)
    IN  << [name |-> "SetDefaultColor", fg |-> base.fg, bg |-> base.bg,
            active |-> cfg.color_scheme = "inverse"],
           [name |-> "SwapLightAndDark", fg |-> "", bg |-> "",
            active |-> cfg.color_scheme # "default"] >>

\* self.style_transformation: the two conditional transformations, merged
\* in this order
StyleTransformations(cfg, term) ==
    LET base == BaseColors(cfg, term)
    IN  << [name |-> "SetDefaultColor", fg |-> base.fg, bg |-> base.bg,
            active |-> cfg.color_scheme # "default"],
           [name |-> "SwapLightAndDark", fg |-> "", bg |-> "",
            active |-> cfg.color_scheme = "inverse"] >>

\* The layers given to merge_styles, in order
StyleLayers(cfg, term) ==
    << [layer |-> "pygments", of |-> cfg.syntax_theme],
       [layer |-> "mime", of |-> ""],
       [layer |-> "markdown", of |-> ""],
       [layer |-> "log", of |-> ""],
       [layer |-> "ipywidget", of |-> ""],
       [layer |-> "app", of |-> ColorPalette(cfg, term)] >>

\* The style built from a configuration and a terminal default pair
BuildStyle(cfg, term) ==
    [style |-> StyleLayers(cfg, term),
     transformation |-> StyleTransformations(cfg, term)]

\* A build that reads the configuration as it was before update_style wrote
\* its arguments to it
CreateMergedStyleStale(cfg, term) == BuildStyle(config, term)

\* create_merged_style() under the configuration cfg and the terminal
\* colours term: the merged style it returns and the transformation it sets
CreateMergedStyle(cfg, term) == BuildStyle(cfg, term)

\* update_style(pygments_style, color_scheme) on the configuration: an
\* argument that is not None ("none") is written to it
ConfigAfterUpdate(cfg, pygments_style, color_scheme) ==
    [cfg EXCEPT !.syntax_theme = IF pygments_style # "none" THEN pygments_style ELSE @,
                !.color_scheme = IF color_scheme # "none" THEN color_scheme ELSE @]

\* The record of a build: what it was made from and what it made
Build(cfg, term, made) ==
    [cfg |-> cfg, term |-> term, style |-> made.style,
     transformation |-> made.transformation]

\* The style before update_style has run (_create_merged_style: DummyStyle)
DummyStyle == <<>>

\* An update_style that builds the style from its arguments and does not
\* write them to the configuration
UpdateStyleToNoWrite(pygments_style, color_scheme, term) ==
    LET cfg == ConfigAfterUpdate(config, pygments_style, color_scheme)
        made == CreateMergedStyle(cfg, term)
    IN  /\ config' = config
        /\ renderer_style' = made.style
        /\ style_transformation' = made.transformation
        /\ \E keep \in BOOLEAN :
              builds' = IF builds = <<>> THEN <<Build(cfg, term, made)>>
                        ELSE IF keep THEN <<builds[1], Build(cfg, term, made)>>
                        ELSE <<builds[Len(builds)], Build(cfg, term, made)>>

\* update_style(query, pygments_style, color_scheme) with the terminal
\* colours term: the configuration is written, the style is rebuilt and
\* installed on the renderer.  One earlier build stays remembered.
UpdateStyleTo(pygments_style, color_scheme, term) ==
    LET cfg == ConfigAfterUpdate(config, pygments_style, color_scheme)
        made == CreateMergedStyle(cfg, term)
    IN  /\ config' = cfg
        /\ renderer_style' = made.style
        /\ style_transformation' = made.transformation
        /\ \E keep \in BOOLEAN :
              builds' = IF builds = <<>> THEN <<Build(cfg, term, made)>>
                        ELSE IF keep THEN <<builds[1], Build(cfg, term, made)>>
                        ELSE <<builds[Len(builds)], Build(cfg, term, made)>>

\* The configuration at start, with the given custom colours
ConfigInit(cfg_fg, cfg_bg) ==
    [color_scheme |-> "default", syntax_theme |-> "default",
     custom_foreground_color |-> cfg_fg, custom_background_color |-> cfg_bg]

\* The first terminal default pair: what term_info.colors holds unanswered
TermColorsInit == [fg |-> "#ffffff", bg |-> "#000000"]

\* -------------------------------------------------------------- lifecycle
\* What terminal_ready works on: the tabs, the render gate, the
\* subscriptions, the polling task and the trace of side effects
Machine(ts, idx, fc, tp, n, run, cpr, subs, poll, tr) ==
    [tabs |-> ts, idx |-> idx, focus |-> fc, tabPath |-> tp, created |-> n,
     is_running |-> run, cpr |-> cpr, subscribed |-> subs, polling |-> poll,
     trace |-> tr]

\* A side effect, and whether the display was being drawn when it happened
Ev(name, m) == [ev |-> name, running |-> m.is_running]

\* self._is_running = False; renderer._waiting_for_cpr_futures.append(Future())
BlockRendering(m) == [m EXCEPT !.is_running = FALSE, !.cpr = @ + 1]

\* self.layout = Layout(self.load_container(), self.focused_element)
LoadLayout(m) == [m EXCEPT !.focus = Logo, !.trace = Append(@, Ev("layout", m))]

\* open_files(): open_file for each configured file, in order
RECURSIVE OpenFilesFrom(_, _, _)
OpenFilesFrom(m, k, n) ==
    IF k > n THEN m
    ELSE LET res == OpenFileRes(m.tabs, m.idx, m.focus, m.tabPath, m.created, k)
         IN  OpenFilesFrom([m EXCEPT !.tabs = res.tabs, !.idx = res.idx,
                                     !.focus = res.focus, !.tabPath = res.tabPath,
                                     !.created = IF res.new # 0 THEN res.new ELSE @],
                           k + 1, n)

OpenFiles(m, n) ==
    LET m2 == OpenFilesFrom(m, 1, n)
    IN  [m2 EXCEPT !.trace = Append(@, Ev("open_files", m))]

\* TuiApp.post_load(): focus the current tab if there is one; with a vt100
\* input, subscribe update_style to the colour queries and start the polling
PostLoad(m, vt) ==
    LET t == CurrentTab(m.tabs, m.idx, 0, m.focus)
        f == IF t # 0 THEN TabFocus(m.tabs, t) ELSE [idx |-> m.idx, focus |-> m.focus]
    IN  [m EXCEPT !.idx = f.idx, !.focus = f.focus,
                  !.subscribed = IF vt THEN @ \cup {"background_color", "foreground_color"}
                                 ELSE @,
                  !.polling = IF vt THEN "started" ELSE @,
                  !.trace = Append(@, Ev("post_load", m))]

\* self._is_running = True; renderer._waiting_for_cpr_futures.pop()
ResumeRendering(m) ==
    [m EXCEPT !.is_running = TRUE, !.cpr = @ - 1, !.trace = Append(@, Ev("release", m))]

\* self._request_absolute_cursor_position()
RequestCursorPosition(m) == [m EXCEPT !.trace = Append(@, Ev("cpr_request", m))]

\* self.invalidate(): a repaint is requested
Invalidate(m) == [m EXCEPT !.trace = Append(@, Ev("invalidate", m))]

\* A terminal_ready that resumes rendering first
TerminalReadyResumeFirst(m, n, vt) ==
    Invalidate(RequestCursorPosition(PostLoad(OpenFiles(LoadLayout(
        ResumeRendering(m)), n), vt)))

\* terminal_ready(): the layout, the files, post_load, then rendering is
\* resumed, the cursor position requested and a repaint requested
TerminalReady(m, n, vt) ==
    Invalidate(RequestCursorPosition(ResumeRendering(PostLoad(OpenFiles(
        LoadLayout(m), n), vt))))

\* The machine at the start of pre_run, and the machine now
MachineInit == Machine(<<>>, 0, Logo, <<>>, 0, TRUE, 0, {}, "none", <<>>)

MachineNow ==
    Machine(tabs, tab_idx, focus, tabPath, created, is_running, cpr_futures,
            subscribed, polling, trace)

\* A pre_run that blocks rendering without subscribing update_style
PreRunMachineNoSubscribe(m) == BlockRendering(m)

\* pre_run's own steps on the machine: update_style is subscribed to the
\* colours query and rendering is blocked
PreRunMachine(m) == BlockRendering([m EXCEPT !.subscribed = @ \cup {"colors"}])

\* The machine becomes the state
Install(m) ==
    /\ tabs' = m.tabs
    /\ tab_idx' = m.idx
    /\ focus' = m.focus
    /\ tabPath' = m.tabPath
    /\ created' = m.created
    /\ is_running' = m.is_running
    /\ cpr_futures' = m.cpr
    /\ subscribed' = m.subscribed
    /\ polling' = m.polling
    /\ trace' = m.trace

\* The values of config.terminal_polling_interval: 0 (no polling) or a
\* number of seconds
PollingIntervals == {0, 1}

\* The number of polling rounds followed
MaxPolls == 2

\* self.post_load_callables: the hooks registered on the application before
\* it runs, in registration order
PostLoadCallables == <<"hook_a", "hook_b">>

\* EuporieApp.post_load() on the hooks invoked so far: every registered hook
\* is called, in order.  TuiApp.post_load (PostLoad) overrides it and does
\* not call it.
EuporieAppPostLoad(hr) == hr \o PostLoadCallables

\* The messages the code logs
LogLoadError == "An error occurred while trying to load the application"

LogUnhandled == "An unhandled exception occurred"

\* ------------------------------------------------------------------- Init
\* The state when the main loop starts: terminal_ready has built the layout
\* and open_files has opened the n configured files (each open_file appends
\* a tab and focuses it); no overlay, no dialog, nothing painted yet.
Init ==
    \E n \in 0..MaxTabs :
        /\ tabs = [i \in 1..n |-> i]
        /\ tabPath = [t \in 1..n |-> t]
        /\ created = n
        /\ tab_idx = IF n = 0 THEN 0 ELSE n - 1
        /\ focus = IF n = 0 THEN Logo ELSE n
        /\ render_counter = 0
        /\ pending = EmptyBag
        /\ chains = <<>>
        /\ exited = 0
        /\ has_dialog = FALSE
        /\ dialogs = <<>>
        /\ graphics = {}
        /\ requests = 0
        /\ lastOp = Op("init", "none")
        /\ phase = "loaded"
        /\ is_running = TRUE
        /\ cpr_futures = 0
        /\ input_closed = FALSE
        /\ using_vt100 = TRUE
        /\ queries_sent = 1
        /\ ready_runs = 1
        /\ trace = TerminalReady(PreRunMachine(MachineInit), n, TRUE).trace
        /\ logged = {}
        /\ subscribed = {"colors", "background_color", "foreground_color"}
        /\ polling = "started"
        /\ polls = 0
        /\ hooks_run = <<>>
        /\ polling_interval = 1
        /\ config = ConfigInit("", "")
        /\ term_colors = TermColorsInit
        /\ renderer_style = CreateMergedStyle(config, term_colors).style
        /\ style_transformation = CreateMergedStyle(config, term_colors).transformation
        /\ builds = <<Build(config, term_colors, CreateMergedStyle(config, term_colors))>>

\* The state after construction, when the application starts to run and
\* pre_run is about to be called: no tab, no layout, no style yet.
InitStartup ==
    /\ tabs = <<>>
    /\ tabPath = <<>>
    /\ created = 0
    /\ tab_idx = 0
    /\ focus = Logo
    /\ render_counter = 0
    /\ pending = EmptyBag
    /\ chains = <<>>
    /\ exited = 0
    /\ has_dialog = FALSE
    /\ dialogs = <<>>
    /\ graphics = {}
    /\ requests = 0
    /\ lastOp = Op("init", "none")
    /\ phase = "constructed"
    /\ is_running = TRUE
    /\ cpr_futures = 0
    /\ input_closed \in BOOLEAN
    /\ using_vt100 \in BOOLEAN
    /\ queries_sent = 0
    /\ ready_runs = 0
    /\ trace = <<>>
    /\ logged = {}
    /\ subscribed = {}
    /\ polling = "none"
    /\ polls = 0
    /\ hooks_run = <<>>
    /\ polling_interval \in PollingIntervals
    /\ \E s \in Schemes : config = [ConfigInit("", "") EXCEPT !.color_scheme = s]
    /\ term_colors = TermColorsInit
    /\ renderer_style = DummyStyle
    /\ style_transformation = <<>>
    /\ builds = <<>>

\* The loaded application with any configuration of the style
InitStyle ==
    /\ tabs = <<>>
    /\ tabPath = <<>>
    /\ created = 0
    /\ tab_idx = 0
    /\ focus = Logo
    /\ render_counter = 0
    /\ pending = EmptyBag
    /\ chains = <<>>
    /\ exited = 0
    /\ has_dialog = FALSE
    /\ dialogs = <<>>
    /\ graphics = {}
    /\ requests = 0
    /\ lastOp = Op("init", "none")
    /\ phase = "loaded"
    /\ is_running = TRUE
    /\ cpr_futures = 0
    /\ input_closed = FALSE
    /\ using_vt100 = TRUE
    /\ queries_sent = 1
    /\ ready_runs = 1
    /\ trace = TerminalReady(PreRunMachine(MachineInit), 0, TRUE).trace
    /\ logged = {}
    /\ subscribed = {"colors", "background_color", "foreground_color"}
    /\ polling = "started"
    /\ polls = 0
    /\ hooks_run = <<>>
    /\ polling_interval = 1
    /\ \E s \in Schemes, cfg_fg \in CustomColors, cfg_bg \in CustomColors :
          config = [ConfigInit(cfg_fg, cfg_bg) EXCEPT !.color_scheme = s]
    /\ term_colors = TermColorsInit
    /\ renderer_style = CreateMergedStyle(config, term_colors).style
    /\ style_transformation = CreateMergedStyle(config, term_colors).transformation
    /\ builds = <<Build(config, term_colors, CreateMergedStyle(config, term_colors))>>

\* ---------------------------------------------------------- tab operations
\* open_file(path)
OpenFile(r) ==
    /\ Running
    /\ WouldCreate(tabs, tabPath, r) => created < MaxTabs
    /\ LET res == OpenFileRes(tabs, tab_idx, focus, tabPath, created, r)
       IN  /\ tabs' = res.tabs
           /\ tab_idx' = res.idx
           /\ focus' = res.focus
           /\ tabPath' = res.tabPath
           /\ created' = IF res.new # 0 THEN res.new ELSE created
           /\ chains' = IF res.new # 0 THEN NotAlone(chains) ELSE chains
           /\ lastOp' = Op("call", "none")
    /\ UNCHANGED <<render_counter, pending, exited, has_dialog, dialogs, graphics, requests>>
    /\ UNCHANGED <<lifecycle, styling>>

\* help_logs(): focus the open LogView, or append a new one and focus it
HelpLogs ==
    /\ Running
    /\ LET logs == {i \in 1..Len(tabs) : tabPath[tabs[i]] = NoPath}
       IN  IF logs # {}
           THEN /\ focus' = tabs[MinOf(logs)]
                /\ UNCHANGED <<tabs, tabPath, created, chains>>
           ELSE /\ created < MaxTabs
                /\ tabs' = Append(tabs, created + 1)
                /\ tabPath' = WithPath(tabPath, created + 1, NoPath)
                /\ created' = created + 1
                /\ focus' = created + 1
                /\ chains' = NotAlone(chains)
    /\ lastOp' = Op("call", "none")
    /\ UNCHANGED <<tab_idx, render_counter, pending, exited, has_dialog, dialogs,
                   graphics, requests>>
    /\ UNCHANGED <<lifecycle, styling>>

\* A close_tab that targets the first tab when it is given no tab
CloseTabFirst(arg) ==
    /\ Running
    /\ LET t == IF arg = 0 THEN (IF tabs # <<>> THEN tabs[1] ELSE 0) ELSE arg
       IN  /\ tab_idx' = IF arg = 0
                         THEN TabIdxAfterRead(tabs, tab_idx, render_counter, focus)
                         ELSE tab_idx
           /\ IF t # 0
              THEN /\ requests < MaxRequests
                   /\ requests' = requests + 1
                   /\ pending' = pending (+) SetToBag({Request(t, 0, 0)})
                   /\ chains' = NotAlone(chains)
              ELSE UNCHANGED <<pending, chains, requests>>
    /\ lastOp' = Op("call", "none")
    /\ UNCHANGED <<tabs, tabPath, created, render_counter, focus, exited,
                   has_dialog, dialogs, graphics>>
    /\ UNCHANGED <<lifecycle, styling>>

\* close_tab(tab): arg 0 is None (the current tab).  The tab's close() is
\* handed cleanup_closed_tab as its callback.
CloseTab(arg) ==
    /\ Running
    /\ LET t == IF arg = 0 THEN CurrentTab(tabs, tab_idx, render_counter, focus)
                ELSE arg
       IN  /\ tab_idx' = IF arg = 0
                         THEN TabIdxAfterRead(tabs, tab_idx, render_counter, focus)
                         ELSE tab_idx
           /\ IF t # 0
              THEN /\ requests < MaxRequests
                   /\ requests' = requests + 1
                   /\ pending' = pending (+) SetToBag({Request(t, 0, 0)})
                   /\ chains' = NotAlone(chains)
              ELSE UNCHANGED <<pending, chains, requests>>
    /\ lastOp' = Op("call", "none")
    /\ UNCHANGED <<tabs, tabPath, created, render_counter, focus, exited,
                   has_dialog, dialogs, graphics>>
    /\ UNCHANGED <<lifecycle, styling>>

\* The callback of a close_tab request: cleanup_closed_tab(tab)
CleanupCallback(r) ==
    LET res == CleanupClosedTab(tabs, tab_idx, render_counter, focus, dialogs, r.tab)
    IN  /\ tabs' = res.tabs
        /\ tab_idx' = res.idx
        /\ focus' = res.focus
        /\ chains' = IF res.err = "none" THEN NotAlone(chains) ELSE chains
        /\ pending' = pending (-) SetToBag({r})
        /\ lastOp' = Op("callback", res.err)
        /\ UNCHANGED exited

\* A chain callback that asks close_tab to close without cleaning up
\* cleanup_tab first
InnerCallbackAskOnly(r) ==
    LET c == r.chain
        pair == chains[c].pairs[r.cb]
    IN  /\ pending' = (pending (-) SetToBag({r}))
                       (+) SetToBag({Request(pair[1], c, r.cb - 1)})
        /\ chains' = [NotAloneBut(chains, c) EXCEPT ![c].asked = Append(@, pair[1])]
        /\ lastOp' = Op("callback", "none")
        /\ UNCHANGED <<tabs, tab_idx, focus, exited>>

\* A chain callback made by create_cb from the pair (close_tab, cleanup_tab):
\* clean up cleanup_tab, then ask close_tab to close with the next callback.
\* A ValueError from the cleanup ends the callback there.
InnerCallback(r) ==
    LET c == r.chain
        pair == chains[c].pairs[r.cb]
        res == CleanupClosedTab(tabs, tab_idx, render_counter, focus, dialogs, pair[2])
    IN  /\ tabs' = res.tabs
        /\ tab_idx' = res.idx
        /\ focus' = res.focus
        /\ IF res.err = "none"
           THEN /\ pending' = (pending (-) SetToBag({r}))
                              (+) SetToBag({Request(pair[1], c, r.cb - 1)})
                /\ chains' = [NotAloneBut(chains, c) EXCEPT
                                ![c].asked = Append(@, pair[1]),
                                ![c].cleaned = Append(@, pair[2])]
           ELSE /\ pending' = pending (-) SetToBag({r})
                /\ UNCHANGED chains
        /\ lastOp' = Op("callback", res.err)
        /\ UNCHANGED exited

\* A final_cb that really exits without cleaning up the last closed tab
FinalCallbackNoCleanup(r) ==
    /\ pending' = pending (-) SetToBag({r})
    /\ chains' = NotAloneBut(chains, r.chain)
    /\ exited' = exited + 1
    /\ lastOp' = Op("callback", "none")
    /\ UNCHANGED <<tabs, tab_idx, focus>>

\* final_cb: clean up self.tabs[0] (IndexError if there is none), then
\* really exit.
FinalCallback(r) ==
    LET c == r.chain
    IN  IF tabs = <<>>
        THEN /\ pending' = pending (-) SetToBag({r})
             /\ lastOp' = Op("callback", "IndexError")
             /\ UNCHANGED <<tabs, tab_idx, focus, chains, exited>>
        ELSE LET res == CleanupClosedTab(tabs, tab_idx, render_counter, focus,
                                         dialogs, tabs[1])
             IN  /\ tabs' = res.tabs
                 /\ tab_idx' = res.idx
                 /\ focus' = res.focus
                 /\ pending' = pending (-) SetToBag({r})
                 /\ chains' = [NotAloneBut(chains, c) EXCEPT
                                 ![c].cleaned = Append(@, tabs[1])]
                 /\ exited' = exited + 1
                 /\ lastOp' = Op("callback", "none")

\* A tab's close() completes and invokes the callback it was given.
CloseComplete(r) ==
    /\ Running
    /\ r \in BagToSet(pending)
    /\ IF r.chain = 0 THEN CleanupCallback(r)
       ELSE IF r.cb >= 1 THEN InnerCallback(r)
       ELSE FinalCallback(r)
    /\ tabPath' = PathsOf(tabPath, tabs')
    /\ UNCHANGED <<created, render_counter, has_dialog, dialogs, graphics, requests>>
    /\ UNCHANGED <<lifecycle, styling>>

\* A tab's close() declines (the user cancels): the callback is never invoked.
CloseDecline(r) ==
    /\ Running
    /\ r \in BagToSet(pending)
    /\ pending' = pending (-) SetToBag({r})
    /\ chains' = IF r.chain = 0 THEN chains
                 ELSE [chains EXCEPT ![r.chain].declined = @ \cup {r.tab}]
    /\ lastOp' = Op("callback", "none")
    /\ UNCHANGED <<tabs, tab_idx, tabPath, created, render_counter, focus, exited,
                   has_dialog, dialogs, graphics, requests>>
    /\ UNCHANGED <<lifecycle, styling>>

\* An exit() that takes the last tab out of the collection as it asks it to
\* close: self.tabs.pop().close(cb)
ExitPop ==
    /\ Running
    /\ IF tabs # <<>>
       THEN /\ requests < MaxRequests
            /\ requests' = requests + 1
            /\ chains' = Append(NotAlone(chains), NewChain(tabs, pending))
            /\ pending' = pending (+) SetToBag({Request(StartTab(tabs),
                                        Len(chains) + 1, Len(ZipTabs(tabs)))})
            /\ tabs' = SubSeq(tabs, 1, Len(tabs) - 1)
            /\ tabPath' = PathsOf(tabPath, tabs')
            /\ UNCHANGED exited
       ELSE /\ exited' = exited + 1
            /\ UNCHANGED <<tabs, tabPath, chains, pending, requests>>
    /\ lastOp' = Op("call", "none")
    /\ UNCHANGED <<tab_idx, created, render_counter, focus, has_dialog, dialogs,
                   graphics>>
    /\ UNCHANGED <<lifecycle, styling>>

\* An exit() without the branch for an empty collection: self.tabs[-1]
\* raises IndexError and the real exit is never reached
ExitNoElse ==
    /\ Running
    /\ IF tabs # <<>>
       THEN /\ requests < MaxRequests
            /\ requests' = requests + 1
            /\ chains' = Append(NotAlone(chains), NewChain(tabs, pending))
            /\ pending' = pending (+) SetToBag({Request(StartTab(tabs),
                                        Len(chains) + 1, Len(ZipTabs(tabs)))})
            /\ lastOp' = Op("call", "none")
       ELSE /\ lastOp' = Op("call", "IndexError")
            /\ UNCHANGED <<chains, pending, requests>>
    /\ UNCHANGED <<tabs, tab_idx, tabPath, created, render_counter, focus,
                   exited, has_dialog, dialogs, graphics>>
    /\ UNCHANGED <<lifecycle, styling>>

\* An exit() that takes the dialog down before it asks the tabs to close
ExitDropDialog ==
    /\ Running
    /\ IF tabs # <<>>
       THEN /\ requests < MaxRequests
            /\ requests' = requests + 1
            /\ chains' = Append(NotAlone(chains), NewChain(tabs, pending))
            /\ pending' = pending (+) SetToBag({Request(StartTab(tabs),
                                        Len(chains) + 1, Len(ZipTabs(tabs)))})
            /\ UNCHANGED exited
       ELSE /\ exited' = exited + 1
            /\ UNCHANGED <<chains, pending, requests>>
    /\ has_dialog' = FALSE
    /\ dialogs' = <<>>
    /\ lastOp' = Op("call", "none")
    /\ UNCHANGED <<tabs, tab_idx, tabPath, created, render_counter, focus, graphics>>
    /\ UNCHANGED <<lifecycle, styling>>

\* exit(): with tabs open, build the chain of callbacks over the current
\* tabs and ask the last tab to close; with none, really exit.
Exit ==
    /\ Running
    /\ IF tabs # <<>>
       THEN /\ requests < MaxRequests
            /\ requests' = requests + 1
            /\ chains' = Append(NotAlone(chains), NewChain(tabs, pending))
            /\ pending' = pending (+) SetToBag({Request(StartTab(tabs),
                                        Len(chains) + 1, Len(ZipTabs(tabs)))})
            /\ UNCHANGED exited
       ELSE /\ exited' = exited + 1
            /\ UNCHANGED <<chains, pending, requests>>
    /\ lastOp' = Op("call", "none")
    /\ UNCHANGED <<tabs, tab_idx, tabPath, created, render_counter, focus,
                   has_dialog, dialogs, graphics>>
    /\ UNCHANGED <<lifecycle, styling>>

\* ------------------------------------------------------------- the cursor
\* The tab_idx setter: ZeroDivisionError when no tab is open.
SetTabIdx(v) ==
    /\ Running
    /\ IF tabs = <<>>
       THEN /\ lastOp' = Op("call", "ZeroDivisionError")
            /\ UNCHANGED <<tab_idx, focus>>
       ELSE /\ tab_idx' = WrapIdx(v, Len(tabs))
            /\ focus' = tabs[WrapIdx(v, Len(tabs)) + 1]
            /\ lastOp' = Op("call", "none")
    /\ UNCHANGED <<tabs, tabPath, created, render_counter, pending, chains,
                   exited, has_dialog, dialogs, graphics, requests>>
    /\ UNCHANGED <<lifecycle, styling>>

\* The tab_has_focus filter of the tab commands: get_app().tab is not None
TabHasFocus == CurrentTab(tabs, tab_idx, render_counter, focus) # 0

\* next_tab / previous_tab: tab_idx += d, behind the tab_has_focus filter
\* (whose evaluation reads the `tab` property).
StepTab(d) ==
    /\ Running
    /\ TabHasFocus
    /\ LET i == TabIdxAfterRead(tabs, tab_idx, render_counter, focus)
           j == WrapIdx(i + d, Len(tabs))
       IN  /\ tab_idx' = j
           /\ focus' = tabs[j + 1]
    /\ lastOp' = Op("call", "none")
    /\ UNCHANGED <<tabs, tabPath, created, render_counter, pending, chains,
                   exited, has_dialog, dialogs, graphics, requests>>
    /\ UNCHANGED <<lifecycle, styling>>

NextTab == StepTab(1)

PreviousTab == StepTab(-1)

\* A paint that does not look at _is_running
PaintUngated ==
    /\ Running
    /\ render_counter' = IF render_counter = 0 THEN render_counter + 1
                         ELSE render_counter
    /\ tab_idx' = TabIdxAfterRead(tabs, tab_idx, render_counter', focus)
    /\ lastOp' = Op("call", "none")
    /\ UNCHANGED <<tabs, tabPath, created, focus, pending, chains, exited,
                   has_dialog, dialogs, graphics, requests>>
    /\ UNCHANGED <<lifecycle, styling>>

\* A paint: the display is drawn only while _is_running is set; the render
\* counter leaves 0 (the code only tests it for > 0) and the title bar reads
\* the `tab` property.
Paint ==
    /\ Running
    /\ is_running
    /\ render_counter' = IF render_counter = 0 THEN render_counter + 1
                         ELSE render_counter
    /\ tab_idx' = TabIdxAfterRead(tabs, tab_idx, render_counter', focus)
    /\ lastOp' = Op("call", "none")
    /\ UNCHANGED <<tabs, tabPath, created, focus, pending, chains, exited,
                   has_dialog, dialogs, graphics, requests>>
    /\ UNCHANGED <<lifecycle, styling>>

\* The user moves the focus to a focusable control of the layout.
FocusControl(c) ==
    /\ Running
    /\ c # focus
    /\ CanFocus(c, tabs, dialogs)
    /\ focus' = c
    /\ lastOp' = Op("call", "none")
    /\ UNCHANGED <<tabs, tab_idx, tabPath, created, render_counter, pending,
                   chains, exited, has_dialog, dialogs, graphics, requests>>
    /\ UNCHANGED <<lifecycle, styling>>

\* ---------------------------------------------------------------- dialogs
\* add_float / remove_float on the owned overlay list
AddFloat(dlgs, d) == Append(dlgs, d)

RemoveFloat(dlgs, i) == SubSeq(dlgs, 1, i - 1) \o SubSeq(dlgs, i + 1, Len(dlgs))

\* The control a new dialog focuses: to_focus, or the first button
DialogFocus(kind) == IF kind = "file" THEN DlgText ELSE DlgButton

\* A dialog() without the has_dialog guard
DialogResNoGuard(hd, dlgs, fc, kind) ==
    [has_dialog |-> TRUE,
     dialogs |-> AddFloat(dlgs, [kind |-> kind, focused |-> fc]),
     focus |-> DialogFocus(kind), shown |-> TRUE]

\* dialog(...) on (hd, dlgs, fc): nothing if a dialog is showing; otherwise
\* the focused control is captured, the float is pushed, the flag is set and
\* the dialog is focused.
DialogRes(hd, dlgs, fc, kind) ==
    IF hd THEN [has_dialog |-> hd, dialogs |-> dlgs, focus |-> fc, shown |-> FALSE]
    ELSE [has_dialog |-> TRUE,
          dialogs |-> AddFloat(dlgs, [kind |-> kind, focused |-> fc]),
          focus |-> DialogFocus(kind), shown |-> TRUE]

\* dialog(): "info" is a dialog whose buttons have no callback (about,
\* shortcuts, error); "file" is ask_file's dialog.
Dialog(kind) ==
    /\ Running
    /\ LET res == DialogRes(has_dialog, dialogs, focus, kind)
       IN  /\ has_dialog' = res.has_dialog
           /\ dialogs' = res.dialogs
           /\ focus' = res.focus
           /\ lastOp' = Op(IF res.shown THEN "dialog" ELSE "dialog_noop", "none")
    /\ UNCHANGED <<tabs, tab_idx, tabPath, created, render_counter, pending,
                   chains, exited, graphics, requests>>
    /\ UNCHANGED <<lifecycle, styling>>

\* A restoration that hands the focus back without looking at the layout
RestoredFocusBlind(captured, fc, ts, dlgs) == captured

\* The focus after the handler's restoration step: the captured control if
\* it is in the layout and Layout.focus accepts it, else what it was.
RestoredFocus(captured, fc, ts, dlgs) ==
    IF captured \in FindAllControls(ts, dlgs)
    THEN IF CanFocus(captured, ts, dlgs) THEN captured ELSE fc
    ELSE fc

\* A handler that runs the button's callback first and only then removes
\* the float, clears the flag and restores the focus
DismissCallbackFirst(i, btn, r) ==
    /\ Running
    /\ i \in 1..Len(dialogs)
    /\ btn # "none" => dialogs[i].kind = "file"
    /\ LET d == dialogs[i]
           d1 == RemoveFloat(dialogs, i)
       IN  CASE btn = "none" ->
                    /\ dialogs' = d1
                    /\ has_dialog' = FALSE
                    /\ focus' = RestoredFocus(d.focused, focus, tabs, d1)
                    /\ UNCHANGED <<tabs, tab_idx, tabPath, created, chains>>
             [] btn = "open" ->
                    /\ WouldCreate(tabs, tabPath, r) => created < MaxTabs
                    /\ LET res == OpenFileRes(tabs, tab_idx, focus, tabPath, created, r)
                       IN  /\ tabs' = res.tabs
                           /\ tab_idx' = res.idx
                           /\ focus' = RestoredFocus(d.focused, res.focus, res.tabs, d1)
                           /\ tabPath' = res.tabPath
                           /\ created' = IF res.new # 0 THEN res.new ELSE created
                           /\ chains' = IF res.new # 0 THEN NotAlone(chains)
                                        ELSE chains
                    /\ dialogs' = d1
                    /\ has_dialog' = FALSE
             [] btn = "reask" ->
                    /\ dialogs' = d1
                    /\ has_dialog' = FALSE
                    /\ focus' = RestoredFocus(d.focused, focus, tabs, d1)
                    /\ UNCHANGED <<tabs, tab_idx, tabPath, created, chains>>
    /\ lastOp' = Op("dismiss", "none")
    /\ UNCHANGED <<render_counter, pending, exited, graphics, requests>>
    /\ UNCHANGED <<lifecycle, styling>>

\* A handler that clears the flag only after the button's callback returned
DismissFlagAfter(i, btn, r) ==
    /\ Running
    /\ i \in 1..Len(dialogs)
    /\ btn # "none" => dialogs[i].kind = "file"
    /\ LET d == dialogs[i]
           d1 == RemoveFloat(dialogs, i)
           f1 == RestoredFocus(d.focused, focus, tabs, d1)
       IN  CASE btn = "none" ->
                    /\ dialogs' = d1
                    /\ has_dialog' = FALSE
                    /\ focus' = f1
                    /\ UNCHANGED <<tabs, tab_idx, tabPath, created, chains>>
             [] btn = "open" ->
                    /\ WouldCreate(tabs, tabPath, r) => created < MaxTabs
                    /\ LET res == OpenFileRes(tabs, tab_idx, f1, tabPath, created, r)
                       IN  /\ tabs' = res.tabs
                           /\ tab_idx' = res.idx
                           /\ focus' = res.focus
                           /\ tabPath' = res.tabPath
                           /\ created' = IF res.new # 0 THEN res.new ELSE created
                           /\ chains' = IF res.new # 0 THEN NotAlone(chains)
                                        ELSE chains
                    /\ dialogs' = d1
                    /\ has_dialog' = FALSE
             [] btn = "reask" ->
                    /\ LET res == DialogRes(has_dialog, d1, f1, "file")
                       IN  /\ has_dialog' = FALSE
                           /\ dialogs' = res.dialogs
                           /\ focus' = res.focus
                    /\ UNCHANGED <<tabs, tab_idx, tabPath, created, chains>>
    /\ lastOp' = Op("dismiss", "none")
    /\ UNCHANGED <<render_counter, pending, exited, graphics, requests>>
    /\ UNCHANGED <<lifecycle, styling>>

\* A handler made by _make_handler runs (a button, its shortcut, Escape):
\* the float is removed, the flag cleared, focus restored, then the button's
\* callback runs.  btn "none": no callback; "open": ask_file's OK with a
\* path that is accepted (open_file); "reask": ask_file's OK with a file
\* that is not found (ask_file again).
Dismiss(i, btn, r) ==
    /\ Running
    /\ i \in 1..Len(dialogs)
    /\ btn # "none" => dialogs[i].kind = "file"
    /\ LET d == dialogs[i]
           d1 == RemoveFloat(dialogs, i)
           f1 == RestoredFocus(d.focused, focus, tabs, d1)
       IN  CASE btn = "none" ->
                    /\ dialogs' = d1
                    /\ has_dialog' = FALSE
                    /\ focus' = f1
                    /\ UNCHANGED <<tabs, tab_idx, tabPath, created, chains>>
             [] btn = "open" ->
                    /\ WouldCreate(tabs, tabPath, r) => created < MaxTabs
                    /\ LET res == OpenFileRes(tabs, tab_idx, f1, tabPath, created, r)
                       IN  /\ tabs' = res.tabs
                           /\ tab_idx' = res.idx
                           /\ focus' = res.focus
                           /\ tabPath' = res.tabPath
                           /\ created' = IF res.new # 0 THEN res.new ELSE created
                           /\ chains' = IF res.new # 0 THEN NotAlone(chains)
                                        ELSE chains
                    /\ dialogs' = d1
                    /\ has_dialog' = FALSE
             [] btn = "reask" ->
                    /\ LET res == DialogRes(FALSE, d1, f1, "file")
                       IN  /\ has_dialog' = res.has_dialog
                           /\ dialogs' = res.dialogs
                           /\ focus' = res.focus
                    /\ UNCHANGED <<tabs, tab_idx, tabPath, created, chains>>
    /\ lastOp' = Op("dismiss", "none")
    /\ UNCHANGED <<render_counter, pending, exited, graphics, requests>>
    /\ UNCHANGED <<lifecycle, styling>>

\* str.lower() on the first characters of the button texts
Lower(ch) == CASE ch = "O" -> "o" [] ch = "C" -> "c" [] OTHER -> ch

\* The buttons given to dialog(): the text (a sequence of characters) and
\* the callback.  ask_file: OK (_open_cb) and Cancel (None); the other
\* dialogs: OK (None).
Buttons(kind) ==
    IF kind = "file"
    THEN << [text |-> <<"O", "K">>, cb |-> "open_cb"],
            [text |-> <<"C", "a", "n", "c", "e", "l">>, cb |-> "none"] >>
    ELSE << [text |-> <<"O", "K">>, cb |-> "none"] >>

\* The key bindings dialog() adds: escape without a filter, then for each
\* button text[:1].lower() with the filter ~buffer_has_focus
Bindings(kind) ==
    << [key |-> "escape", filter |-> "always", cb |-> "none"] >>
    \o [b \in 1..Len(Buttons(kind)) |->
           [key |-> Lower(Head(Buttons(kind)[b].text)), filter |-> "no_buffer",
            cb |-> Buttons(kind)[b].cb]]

\* buffer_has_focus: the focused control is the text field of the dialog
BufferHasFocus(fc) == fc = DlgText

\* The bindings of the dialog that match a key under the current focus
Matching(kind, key, fc) ==
    {b \in 1..Len(Bindings(kind)) :
        /\ Bindings(kind)[b].key = key
        /\ Bindings(kind)[b].filter = "no_buffer" => ~BufferHasFocus(fc)}

\* The keys the dialogs bind
Keys == {"escape", "o", "c"}

\* The handlers a callback stands for: _open_cb opens the file or asks again
Handlers(cb) == IF cb = "open_cb" THEN {"open", "reask"} ELSE {"none"}

\* A key press that runs a character shortcut whatever holds the focus
KeyPressNoFilter(key) ==
    /\ Running
    /\ has_dialog
    /\ dialogs # <<>>
    /\ focus \in DialogControls(dialogs)
    /\ LET top == Len(dialogs)
           kind == dialogs[top].kind
           m == {b \in 1..Len(Bindings(kind)) : Bindings(kind)[b].key = key}
       IN  IF m # {}
           THEN \E b \in m : \E h \in Handlers(Bindings(kind)[b].cb) :
                   \E r \in RawPaths : (h # "open" => r = 1) /\ Dismiss(top, h, r)
           ELSE /\ lastOp' = Op("key", "none")
                /\ UNCHANGED <<appvars, lifecycle, styling>>

\* A key is pressed while a dialog is showing and the focus is inside it:
\* the handler of a binding that matches runs; a key without one goes to
\* the focused control (a character typed into the text field).
KeyPress(key) ==
    /\ Running
    /\ has_dialog
    /\ dialogs # <<>>
    /\ focus \in DialogControls(dialogs)
    /\ LET top == Len(dialogs)
           kind == dialogs[top].kind
           m == Matching(kind, key, focus)
       IN  IF m # {}
           THEN \E b \in m : \E h \in Handlers(Bindings(kind)[b].cb) :
                   \E r \in RawPaths : (h # "open" => r = 1) /\ Dismiss(top, h, r)
           ELSE /\ lastOp' = Op("key", "none")
                /\ UNCHANGED <<appvars, lifecycle, styling>>

\* ---------------------------------------------------------------- loading
\* A pre_run that completes the loading itself and schedules the task too
PreRunBoth ==
    /\ Running
    /\ phase = "constructed"
    /\ UpdateStyleTo("none", "none", term_colors)
    /\ \E n \in 0..MaxTabs :
          Install(TerminalReady(PreRunMachine(MachineNow), n, using_vt100))
    /\ ready_runs' = ready_runs + 1
    /\ phase' = "scheduled"
    /\ lastOp' = Op("pre_run", "none")
    /\ UNCHANGED <<render_counter, pending, chains, exited, has_dialog, dialogs,
                   graphics, requests, input_closed, using_vt100,
                   queries_sent, logged, polls, polling_interval, hooks_run, term_colors>>

\* A pre_run that always leaves the loading to the task
PreRunAsync ==
    /\ Running
    /\ phase = "constructed"
    /\ UpdateStyleTo("none", "none", term_colors)
    /\ Install(PreRunMachine(MachineNow))
    /\ phase' = "scheduled"
    /\ lastOp' = Op("pre_run", "none")
    /\ UNCHANGED <<render_counter, pending, chains, exited, has_dialog, dialogs,
                   graphics, requests, input_closed, using_vt100,
                   queries_sent, ready_runs, logged, polls, polling_interval, hooks_run, term_colors>>

\* pre_run(): the style is installed and subscribed to the colours query,
\* rendering is blocked; with a closed input terminal_ready runs at once,
\* otherwise await_terminal_feedback is made a background task.
PreRun ==
    /\ Running
    /\ phase = "constructed"
    /\ UpdateStyleTo("none", "none", term_colors)
    /\ IF input_closed
       THEN /\ \E n \in 0..MaxTabs :
                  Install(TerminalReady(PreRunMachine(MachineNow), n, using_vt100))
            /\ ready_runs' = ready_runs + 1
            /\ phase' = "loaded"
       ELSE /\ Install(PreRunMachine(MachineNow))
            /\ phase' = "scheduled"
            /\ UNCHANGED ready_runs
    /\ lastOp' = Op("pre_run", "none")
    /\ UNCHANGED <<render_counter, pending, chains, exited, has_dialog, dialogs,
                   graphics, requests, input_closed, using_vt100,
                   queries_sent, logged, polls, polling_interval, hooks_run, term_colors>>

\* An await_terminal_feedback that swallows a failure of send_all and goes
\* on to terminal_ready
TaskStartSwallow(outcome) ==
    /\ Running
    /\ phase = "scheduled"
    /\ IF using_vt100 /\ outcome = "ok"
       THEN /\ queries_sent' = queries_sent + 1
            /\ phase' = "sleeping"
            /\ lastOp' = Op("task", "none")
            /\ UNCHANGED <<tabs, tab_idx, focus, tabPath, created, is_running,
                           cpr_futures, subscribed, polling, trace, ready_runs,
                           logged>>
       ELSE /\ using_vt100 <=> outcome = "raise"
            /\ queries_sent' = IF using_vt100 THEN queries_sent + 1 ELSE queries_sent
            /\ \E n \in 0..MaxTabs :
                  Install(TerminalReady(MachineNow, n, using_vt100))
            /\ ready_runs' = ready_runs + 1
            /\ phase' = "loaded"
            /\ lastOp' = Op("task", "none")
            /\ UNCHANGED logged
    /\ UNCHANGED <<render_counter, pending, chains, exited, has_dialog, dialogs,
                   graphics, requests, input_closed, using_vt100, polls,
                   polling_interval, hooks_run, styling>>

\* An await_terminal_feedback that does not sleep after send_all: it goes
\* on to terminal_ready in the same step
TaskStartNoSleep(outcome) ==
    /\ Running
    /\ phase = "scheduled"
    /\ outcome = "ok"
    /\ queries_sent' = IF using_vt100 THEN queries_sent + 1 ELSE queries_sent
    /\ \E n \in 0..MaxTabs :
          Install(TerminalReady(MachineNow, n, using_vt100))
    /\ ready_runs' = ready_runs + 1
    /\ phase' = "loaded"
    /\ lastOp' = Op("task", "none")
    /\ UNCHANGED <<logged, exited, requests, chains, pending>>
    /\ UNCHANGED <<render_counter, has_dialog, dialogs, graphics, input_closed,
                   using_vt100, polls, polling_interval, hooks_run, styling>>

\* await_terminal_feedback() up to its await: with a vt100 input send_all()
\* is called; if it raises, the error is logged and exit() is called; if not,
\* the task sleeps.  Without a vt100 input terminal_ready runs at once.
TaskStart(outcome) ==
    /\ Running
    /\ phase = "scheduled"
    /\ IF using_vt100
       THEN /\ queries_sent' = queries_sent + 1
            /\ IF outcome = "ok"
               THEN /\ phase' = "sleeping"
                    /\ lastOp' = Op("task", "none")
                    /\ UNCHANGED <<logged, exited, requests, chains, pending>>
               ELSE /\ logged' = logged \cup {LogLoadError}
                    /\ phase' = "failed"
                    /\ lastOp' = Op("task", "Exception")
                    /\ IF tabs # <<>>
                       THEN /\ requests' = requests + 1
                            /\ chains' = Append(NotAlone(chains), NewChain(tabs, pending))
                            /\ pending' = pending (+) SetToBag({Request(StartTab(tabs),
                                              Len(chains) + 1, Len(ZipTabs(tabs)))})
                            /\ UNCHANGED exited
                       ELSE /\ exited' = exited + 1
                            /\ UNCHANGED <<chains, pending, requests>>
            /\ UNCHANGED <<tabs, tab_idx, focus, tabPath, created, is_running,
                           cpr_futures, subscribed, polling, trace, ready_runs>>
       ELSE /\ outcome = "ok"
            /\ \E n \in 0..MaxTabs :
                  Install(TerminalReady(MachineNow, n, using_vt100))
            /\ ready_runs' = ready_runs + 1
            /\ phase' = "loaded"
            /\ lastOp' = Op("task", "none")
            /\ UNCHANGED <<queries_sent, logged, exited, requests, chains, pending>>
    /\ UNCHANGED <<render_counter, has_dialog, dialogs, graphics, input_closed,
                   using_vt100, polls, polling_interval, hooks_run, styling>>

\* An await_terminal_feedback that goes on only once the terminal answered
TaskWakeOnAnswer ==
    /\ Running
    /\ phase = "sleeping"
    /\ lastOp.op = "response"
    /\ \E n \in 0..MaxTabs :
          Install(TerminalReady(MachineNow, n, using_vt100))
    /\ ready_runs' = ready_runs + 1
    /\ phase' = "loaded"
    /\ lastOp' = Op("task", "none")
    /\ UNCHANGED <<render_counter, pending, chains, exited, has_dialog, dialogs,
                   graphics, requests, input_closed, using_vt100,
                   queries_sent, logged, polls, polling_interval, hooks_run, styling>>

\* await_terminal_feedback() after asyncio.sleep(0.1): terminal_ready()
TaskWake ==
    /\ Running
    /\ phase = "sleeping"
    /\ \E n \in 0..MaxTabs :
          Install(TerminalReady(MachineNow, n, using_vt100))
    /\ ready_runs' = ready_runs + 1
    /\ phase' = "loaded"
    /\ lastOp' = Op("task", "none")
    /\ UNCHANGED <<render_counter, pending, chains, exited, has_dialog, dialogs,
                   graphics, requests, input_closed, using_vt100,
                   queries_sent, logged, polls, polling_interval, hooks_run, styling>>

\* The terminal's answer to the colours query is read from the input (which
\* is processed while the application runs or a cursor position response is
\* awaited): the query's value is updated and its event calls its
\* subscribers.
TerminalResponse(c) ==
    /\ Running
    /\ queries_sent + polls > 0
    /\ is_running \/ cpr_futures > 0
    /\ term_colors' = c
    /\ IF "colors" \in subscribed
       THEN UpdateStyleTo("none", "none", c)
       ELSE UNCHANGED <<config, renderer_style, style_transformation, builds>>
    /\ lastOp' = Op("response", "none")
    /\ UNCHANGED <<appvars, lifecycle>>

\* update_style(pygments_style=..., color_scheme=...): the commands
\* update_syntax_theme and update_color_scheme, or a call without arguments
UpdateStyle(pygments_style, color_scheme) ==
    /\ Running
    /\ phase = "loaded"
    /\ UpdateStyleTo(pygments_style, color_scheme, term_colors)
    /\ lastOp' = Op("update_style", "none")
    /\ UNCHANGED <<appvars, lifecycle, term_colors>>

\* A polling task that ends after its first round of queries
PollWakeOnce ==
    /\ Running
    /\ polling = "sleeping"
    /\ polls' = polls + 1
    /\ polling' = "stopped"
    /\ lastOp' = Op("poll_send", "none")
    /\ UNCHANGED <<appvars, styling, phase, is_running, cpr_futures, input_closed,
                   using_vt100, queries_sent, ready_runs, trace, logged,
                   subscribed, polling_interval, hooks_run>>

\* _poll_terminal_colors at its `while config.terminal_polling_interval:`
\* test: with a non-zero interval the task sleeps, with a zero one it ends
PollTest ==
    /\ Running
    /\ polling = "started"
    /\ IF polling_interval # 0
       THEN polls < MaxPolls /\ polling' = "sleeping"
       ELSE polling' = "stopped"
    /\ lastOp' = Op("poll", "none")
    /\ UNCHANGED <<appvars, styling, phase, is_running, cpr_futures, input_closed,
                   using_vt100, queries_sent, ready_runs, trace, logged,
                   subscribed, polls, polling_interval, hooks_run>>

\* _poll_terminal_colors after its sleep: background_color.send() and
\* foreground_color.send(), then back to the test
PollWake ==
    /\ Running
    /\ polling = "sleeping"
    /\ polls' = polls + 1
    /\ polling' = "started"
    /\ lastOp' = Op("poll_send", "none")
    /\ UNCHANGED <<appvars, styling, phase, is_running, cpr_futures, input_closed,
                   using_vt100, queries_sent, ready_runs, trace, logged,
                   subscribed, polling_interval, hooks_run>>

\* The configured polling interval is changed while the application runs
SetPollingInterval(v) ==
    /\ Running
    /\ phase = "loaded"
    /\ v # polling_interval
    /\ polling_interval' = v
    /\ lastOp' = Op("config", "none")
    /\ UNCHANGED <<appvars, styling, phase, is_running, cpr_futures, input_closed,
                   using_vt100, queries_sent, ready_runs, trace, logged,
                   subscribed, polling, polls, hooks_run>>

\* _handle_exception(loop, context): the exception is logged and an error
\* dialog is asked for
HandleException ==
    /\ Running
    /\ logged' = logged \cup {LogUnhandled}
    /\ LET res == DialogRes(has_dialog, dialogs, focus, "error")
       IN  /\ has_dialog' = res.has_dialog
           /\ dialogs' = res.dialogs
           /\ focus' = res.focus
    /\ lastOp' = Op("handle_exception", "none")
    /\ UNCHANGED <<tabs, tab_idx, tabPath, created, render_counter, pending,
                   chains, exited, graphics, requests, phase, is_running,
                   cpr_futures, input_closed, using_vt100, queries_sent,
                   ready_runs, trace, subscribed, polling, polls, polling_interval, hooks_run, styling>>

\* ------------------------------------------------------------------- Next
OpenTabs == {tabs[i] : i \in 1..Len(tabs)}

Next ==
    \/ \E r \in RawPaths : OpenFile(r)
    \/ HelpLogs
    \/ \E a \in {0} \cup OpenTabs : CloseTab(a)
    \/ \E r \in BagToSet(pending) : CloseComplete(r)
    \/ \E r \in BagToSet(pending) : CloseDecline(r)
    \/ Exit
    \/ \E v \in -1..MaxTabs : SetTabIdx(v)
    \/ NextTab
    \/ PreviousTab
    \/ Paint
    \/ \E c \in DlgText..MaxTabs : FocusControl(c)
    \/ \E k \in {"info", "file"} : Dialog(k)
    \/ \E i \in 1..Len(dialogs) : \E b \in {"none", "open", "reask"} :
          \E r \in RawPaths : (b # "open" => r = 1) /\ Dismiss(i, b, r)
    \/ PreRun
    \/ \E o \in {"ok", "raise"} : TaskStart(o)
    \/ TaskWake
    \/ \E c \in TermColorValues : TerminalResponse(c)
    \/ \E p \in {"none"} \cup SyntaxThemes : \E c \in {"none"} \cup Schemes :
          UpdateStyle(p, c)
    \/ HandleException
    \/ \E key \in Keys : KeyPress(key)
    \/ PollTest
    \/ PollWake
    \/ \E v \in PollingIntervals : SetPollingInterval(v)

Spec == Init /\ [][Next]_vars

\* The tab collection and the shutdown chains alone
NextShutdown ==
    \/ \E r \in RawPaths : OpenFile(r)
    \/ HelpLogs
    \/ \E a \in {0} \cup OpenTabs : CloseTab(a)
    \/ \E r \in BagToSet(pending) : CloseComplete(r)
    \/ \E r \in BagToSet(pending) : CloseDecline(r)
    \/ Exit

SpecShutdown == Init /\ [][NextShutdown]_vars

\* The tab collection and its cursor: appends, close requests and their
\* cleanups, the cursor commands, paints and focus changes
NextCursor ==
    \/ \E r \in RawPaths : OpenFile(r)
    \/ HelpLogs
    \/ \E a \in {0} \cup OpenTabs : CloseTab(a)
    \/ \E r \in BagToSet(pending) : CloseComplete(r)
    \/ \E r \in BagToSet(pending) : CloseDecline(r)
    \/ \E v \in -1..MaxTabs : SetTabIdx(v)
    \/ NextTab
    \/ PreviousTab
    \/ Paint
    \/ \E c \in DlgText..MaxTabs : FocusControl(c)

SpecCursor == Init /\ [][NextCursor]_vars

\* The dialogs over a changing tab collection
NextDialog ==
    \/ \E r \in RawPaths : OpenFile(r)
    \/ \E a \in {0} \cup OpenTabs : CloseTab(a)
    \/ \E r \in BagToSet(pending) : CloseComplete(r)
    \/ \E c \in DlgText..MaxTabs : FocusControl(c)
    \/ \E k \in {"info", "file"} : Dialog(k)
    \/ \E i \in 1..Len(dialogs) : \E b \in {"none", "open", "reask"} :
          \E r \in RawPaths : (b # "open" => r = 1) /\ Dismiss(i, b, r)

SpecDialog == Init /\ [][NextDialog]_vars

\* exit() with dialogs showing and the cursor moving
NextExit ==
    \/ Exit
    \/ \E r \in BagToSet(pending) : CloseComplete(r)
    \/ \E r \in BagToSet(pending) : CloseDecline(r)
    \/ \E v \in -1..MaxTabs : SetTabIdx(v)
    \/ \E c \in DlgText..MaxTabs : FocusControl(c)
    \/ \E k \in {"info", "file"} : Dialog(k)
    \/ \E i \in 1..Len(dialogs) : Dismiss(i, "none", 1)

SpecExit == Init /\ [][NextExit]_vars

\* The loading of the application, from pre_run on
NextStartup ==
    \/ PreRun
    \/ \E o \in {"ok", "raise"} : TaskStart(o)
    \/ TaskWake
    \/ \E c \in TermColorValues : TerminalResponse(c)
    \/ Paint
    \/ \E c \in DlgText..MaxTabs : FocusControl(c)

SpecStartup == InitStartup /\ [][NextStartup]_vars

\* The event loop runs the background task: its steps are taken once they
\* can be (the sleep ends)
SpecStartupFair ==
    /\ InitStartup
    /\ [][NextStartup]_vars
    /\ WF_vars(PreRun)
    /\ WF_vars(\E o \in {"ok", "raise"} : TaskStart(o))
    /\ WF_vars(TaskWake)

\* The styling of the loaded application
NextStyle ==
    \/ \E p \in {"none"} \cup SyntaxThemes : \E c \in {"none"} \cup Schemes :
          UpdateStyle(p, c)
    \/ \E c \in TermColorValues : TerminalResponse(c)

SpecStyle == InitStyle /\ [][NextStyle]_vars

\* Unhandled exceptions while dialogs come and go
NextError ==
    \/ HandleException
    \/ \E k \in {"info", "file"} : Dialog(k)
    \/ \E i \in 1..Len(dialogs) : Dismiss(i, "none", 1)
    \/ \E c \in DlgText..MaxTabs : FocusControl(c)
    \/ \E a \in {0} \cup OpenTabs : CloseTab(a)
    \/ \E r \in BagToSet(pending) : CloseComplete(r)

SpecError == Init /\ [][NextError]_vars

\* The dialog handlers: dialogs shown, dismissed through their buttons and
\* their key bindings, and the focus moving
NextHandler ==
    \/ \E k \in {"info", "file"} : Dialog(k)
    \/ \E i \in 1..Len(dialogs) : \E b \in {"none", "open", "reask"} :
          \E r \in RawPaths : (b # "open" => r = 1) /\ Dismiss(i, b, r)
    \/ \E c \in DlgText..MaxTabs : FocusControl(c)
    \/ \E key \in Keys : KeyPress(key)

SpecHandler == Init /\ [][NextHandler]_vars

\* The loading followed by the polling of the terminal's colours
NextPolling ==
    \/ NextStartup
    \/ PollTest
    \/ PollWake
    \/ \E v \in PollingIntervals : SetPollingInterval(v)

SpecPolling == InitStartup /\ [][NextPolling]_vars

\* The event loop runs the loading task and the polling task
SpecPollingFair ==
    /\ SpecPolling
    /\ WF_vars(PreRun)
    /\ WF_vars(\E o \in {"ok", "raise"} : TaskStart(o))
    /\ WF_vars(TaskWake)
    /\ WF_vars(PollTest)
    /\ WF_vars(PollWake)

\* The whole life of one application: the loading, then tab operations,
\* shutdown chains, dialogs and style recomputations on the loaded
\* application
InitFrame ==
    /\ InitStartup
    /\ config.color_scheme = "default"
    /\ polling_interval = 1

NextFrame ==
    \/ PreRun
    \/ \E o \in {"ok", "raise"} : TaskStart(o)
    \/ TaskWake
    \/ phase = "loaded" /\ OpenFile(1)
    \/ phase = "loaded" /\ CloseTab(0)
    \/ phase = "loaded" /\ \E r \in BagToSet(pending) : CloseComplete(r)
    \/ phase = "loaded" /\ Exit
    \/ phase = "loaded" /\ \E k \in {"info", "file"} : Dialog(k)
    \/ phase = "loaded" /\ \E i \in 1..Len(dialogs) : \E b \in {"none", "open", "reask"} :
          Dismiss(i, b, 1)
    \/ phase = "loaded" /\ UpdateStyle("none", "none")

SpecFrame == InitFrame /\ [][NextFrame]_vars

\* The tab collection under open_file, help_logs and close_tab alone
NextOpen ==
    \/ \E r \in RawPaths : OpenFile(r)
    \/ HelpLogs
    \/ \E a \in {0} \cup OpenTabs : CloseTab(a)
    \/ \E r \in BagToSet(pending) : CloseComplete(r)

SpecOpen == Init /\ [][NextOpen]_vars

\* ============================================================ properties
\* The chains of the run, and the position of a tab in a chain's snapshot
ChainIds == 1..Len(chains)

PosAtExit(c, t) == IndexOf(t, chains[c].atExit)

\* The tab a chain handles at its j-th step when it works through its
\* snapshot from the last tab to the first
FromLast(c, j) == chains[c].atExit[Len(chains[c].atExit) - j + 1]

\* ---------------------------------------------------------------------- C1
\* C1 (as stated): once a tab of a shutdown chain has declined to close, no
\* tab positioned after it in the collection at the time of the request is
\* ever asked to close by that chain, and no tab positioned before or at it
\* is asked to close or cleaned up a second time.
CEx_C1_NoLaterTabAsked ==
    \A c \in ChainIds : \A t \in chains[c].declined :
        /\ \A j \in (PosAtExit(c, t) + 1)..Len(chains[c].atExit) :
              ~InSeq(chains[c].atExit[j], chains[c].asked)
        /\ \A j \in 1..PosAtExit(c, t) :
              /\ Count(chains[c].atExit[j], chains[c].asked) <= 1
              /\ Count(chains[c].atExit[j], chains[c].cleaned) <= 1

\* C1 (amended): once a tab of a shutdown chain has declined to close, no
\* tab positioned before it in the collection at the time of the request is
\* ever asked to close by that chain, and the declining tab and the tabs
\* after it are asked to close, and cleaned up, at most once by that chain.
Thm_C1_NoEarlierTabAsked ==
    \A c \in ChainIds : \A t \in chains[c].declined :
        /\ \A j \in 1..(PosAtExit(c, t) - 1) :
              ~InSeq(chains[c].atExit[j], chains[c].asked)
        /\ \A j \in PosAtExit(c, t)..Len(chains[c].atExit) :
              /\ Count(chains[c].atExit[j], chains[c].asked) <= 1
              /\ Count(chains[c].atExit[j], chains[c].cleaned) <= 1

\* A chain in which a tab in the middle of the snapshot declined: a later
\* tab has been asked and cleaned up, an earlier one is never asked.
Wit_C1_MiddleTabDeclined ==
    \E c \in ChainIds : \E t \in chains[c].declined :
        /\ 1 < PosAtExit(c, t)
        /\ PosAtExit(c, t) < Len(chains[c].atExit)
        /\ chains[c].cleaned # <<>>

\* ---------------------------------------------------------------------- C2
\* C2 (as stated): shutdown of [A, B, C] where C never invokes its close
\* callback ends with the collection exactly [C] and no real exit.
CEx_C2_OnlyLastTabLeft ==
    \A c \in ChainIds :
        (chains[c].atExit = <<1, 2, 3>> /\ chains[c].alone /\ 3 \in chains[c].declined)
            => (tabs = <<3>> /\ exited = 0)

\* C2 (amended): shutdown of [A, B, C] where C never invokes its close
\* callback ends with the collection exactly [A, B, C]: C is the first tab
\* asked, A and B are never asked, nothing is cleaned up, and the real exit
\* is never invoked.
Thm_C2_NothingRemoved ==
    \A c \in ChainIds :
        (chains[c].atExit = <<1, 2, 3>> /\ chains[c].alone /\ 3 \in chains[c].declined)
            => /\ tabs = <<1, 2, 3>>
               /\ exited = 0
               /\ chains[c].asked = <<3>>
               /\ chains[c].cleaned = <<>>

\* The shutdown of [A, B, C] has been requested and C has declined.
Wit_C2_LastTabDeclined ==
    \E c \in ChainIds :
        chains[c].atExit = <<1, 2, 3>> /\ chains[c].alone /\ 3 \in chains[c].declined

\* ---------------------------------------------------------------------- C3
\* C3 (as stated): if a tab of a shutdown chain declines to close, the
\* collection is left unchanged (no other operation having touched it).
CEx_C3_CollectionUnchanged ==
    \A c \in ChainIds :
        (chains[c].declined # {} /\ chains[c].alone) => tabs = chains[c].atExit

\* C3 (amended): if a tab of a shutdown chain declines to close, the
\* collection is the snapshot up to and including the declining tab, in
\* order: the tabs after it, whose closes completed, have been removed (no
\* other operation having touched the collection).
Thm_C3_PrefixLeft ==
    \A c \in ChainIds : \A t \in chains[c].declined :
        chains[c].alone => tabs = SubSeq(chains[c].atExit, 1, PosAtExit(c, t))

\* A chain running alone removed at least one tab before a tab declined.
Wit_C3_DeclinedAfterRemoval ==
    \E c \in ChainIds :
        chains[c].alone /\ chains[c].declined # {} /\ chains[c].cleaned # <<>>

\* ---------------------------------------------------------------------- C4
\* C4: exit() with an empty tab collection invokes the real exit at once
\* and changes neither the collection, the cursor, the dialog flag, the
\* overlay collections nor the outstanding close requests.
Thm_C4_EmptyExit ==
    [][(tabs = <<>> /\ Exit)
          => /\ exited' = exited + 1
             /\ UNCHANGED <<tabs, tab_idx, has_dialog, dialogs, graphics,
                            pending, chains>>]_vars

\* The real exit was reached without any chain, with a dialog showing.
Wit_C4_ExitedNoTabs ==
    exited = 1 /\ chains = <<>> /\ tabs = <<>> /\ has_dialog /\ dialogs # <<>>

\* ---------------------------------------------------------------------- C5
\* C5 (as stated): while a shutdown chain is in flight, a second exit() has
\* no effect: no second chain, no tab asked again, no exit of its own.
CEx_C5_SecondExitNoOp ==
    [][(Exit /\ \E r \in BagToSet(pending) : r.chain # 0)
          => UNCHANGED <<tabs, tab_idx, pending, chains, exited>>]_vars

\* ---------------------------------------------------------------------- C6
\* C6 (as stated): a chain asks to close, and cleans up, the tabs present at
\* the time of the request, whatever is added or removed meanwhile.
CEx_C6_ChainUsesSnapshot ==
    \A c \in ChainIds :
        /\ \A j \in 1..Len(chains[c].asked) : chains[c].asked[j] = FromLast(c, j)
        /\ \A j \in 1..Len(chains[c].cleaned) : chains[c].cleaned[j] = FromLast(c, j)

\* ---------------------------------------------------------------------- C7
\* C7: whenever the tab collection is non-empty, 0 <= cursor < its length,
\* after any sequence of appends, close requests and cleanups.
Thm_C7_CursorInRange ==
    tabs # <<>> => (0 <= tab_idx /\ tab_idx < Len(tabs))

\* A cleanup removed a tab while the cursor was on the last tab, and tabs
\* remain.
Wit_C7_ClampedAfterCleanup ==
    /\ lastOp = Op("callback", "none")
    /\ tabs # <<>>
    /\ Len(tabs) < created
    /\ tab_idx = Len(tabs) - 1

\* ---------------------------------------------------------------------- C8
\* C8 (as stated): setting the cursor to any integer i on any collection
\* makes it i modulo the collection size and never raises.
CEx_C8_SetIndexNeverRaises ==
    [][\A v \in -1..MaxTabs :
          SetTabIdx(v) => (lastOp'.err = "none" /\ tab_idx' = v % Len(tabs))]_vars

\* ---------------------------------------------------------------------- C9
\* C9: at most one modal dialog is in the overlay list at any time, and a
\* dialog() call while one is showing changes nothing: no overlay added, no
\* focus change, no flag change.
Thm_C9_OneDialog ==
    /\ [](Len(dialogs) <= 1)
    /\ [][\A k \in {"info", "file"} :
             (has_dialog /\ Dialog(k))
                 => UNCHANGED <<has_dialog, dialogs, graphics, focus, tabs,
                                tab_idx, pending>>]_vars

\* dialog() was called while a dialog was showing.
Wit_C9_DialogWhileShowing ==
    lastOp.op = "dialog_noop" /\ has_dialog /\ Len(dialogs) = 1

\* --------------------------------------------------------------------- C10
\* The control in focus once a handler has restored it: the focus itself,
\* or, when the button's callback asked again, the control the new dialog
\* captured.
AfterRestore(b) == IF b = "none" THEN focus' ELSE dialogs'[Len(dialogs')].focused

\* C10 (as stated): on dismissal, focus goes to the control captured when
\* the dialog was shown whenever that control is still in the layout.
CEx_C10_RestoredIfInLayout ==
    [][\A i \in 1..Len(dialogs) :
          Dismiss(i, "none", 1)
              => (dialogs[i].focused \in FindAllControls(tabs, RemoveFloat(dialogs, i))
                    => focus' = dialogs[i].focused)]_vars

\* C10 (amended): on dismissal, focus goes to the control captured when the
\* dialog was shown if that control is still in the layout and can take the
\* focus; if it has been removed, or is in the layout but not focusable (the
\* logo once a tab is open), focus stays where it is.  No error is raised.
Thm_C10_RestoredIfFocusable ==
    [][\A i \in 1..Len(dialogs) : \A b \in {"none", "reask"} :
          Dismiss(i, b, 1)
              => LET captured == dialogs[i].focused
                     rest == RemoveFloat(dialogs, i)
                 IN  /\ lastOp'.err = "none"
                     /\ IF captured \in FindAllControls(tabs, rest)
                           /\ IsFocusable(captured, tabs)
                        THEN AfterRestore(b) = captured
                        ELSE AfterRestore(b) = focus]_vars

\* A dialog was dismissed and the focus is back on a tab.
Wit_C10_FocusBackOnTab ==
    lastOp.op = "dismiss" /\ ~has_dialog /\ dialogs = <<>> /\ focus \in OpenTabs

\* --------------------------------------------------------------------- C11
\* C11: with a closed (non-interactive) input, pre_run runs terminal_ready
\* itself, before it returns: no terminal query is dispatched and the render
\* gate is released when pre_run returns.
Thm_C11_ClosedInputSynchronous ==
    [][(PreRun /\ input_closed)
          => /\ ready_runs' = ready_runs + 1
             /\ queries_sent' = queries_sent
             /\ is_running'
             /\ cpr_futures' = 0
             /\ phase' = "loaded"]_vars

\* pre_run has run with a closed input: loaded, nothing sent.
Wit_C11_LoadedWithoutQueries ==
    /\ input_closed
    /\ lastOp.op = "pre_run"
    /\ phase = "loaded"
    /\ queries_sent = 0
    /\ ready_runs = 1

\* --------------------------------------------------------------------- C12
\* C12 (as stated): with an interactive input the completion step (layout
\* built, render gate released) eventually runs after pre_run, on every
\* fair run of the event loop.
CEx_C12_AlwaysCompletes ==
    (phase = "scheduled") ~> (ready_runs = 1 /\ is_running)

\* C12 (amended): with an interactive input, on every fair run of the event
\* loop the negotiation ends after pre_run: either the completion step
\* eventually runs (render gate released), whether the terminal answers or
\* not, or dispatching the queries raised (the error is logged and exit is
\* called); once the queries are dispatched the completion step always runs.
Thm_C12_CompletesOrFails ==
    /\ (phase = "scheduled")
          ~> ((ready_runs = 1 /\ is_running /\ cpr_futures = 0) \/ phase = "failed")
    /\ (phase = "sleeping") ~> (ready_runs = 1 /\ is_running /\ cpr_futures = 0)

\* The loading completed with a vt100 input and no answer was ever read:
\* the only build of the style is pre_run's.
Wit_C12_CompletedUnanswered ==
    /\ ~input_closed
    /\ using_vt100
    /\ phase = "loaded"
    /\ queries_sent = 1
    /\ Len(builds) = 1

\* --------------------------------------------------------------------- C13
\* C13: in a run the startup queries are dispatched at most once and
\* terminal_ready runs at most once, whichever way the loading goes.
Thm_C13_NegotiationOnce ==
    queries_sent <= 1 /\ ready_runs <= 1

\* The loading went through the task: queries dispatched, terminal_ready run.
Wit_C13_SentAndReady ==
    queries_sent = 1 /\ ready_runs = 1 /\ phase = "loaded" /\ lastOp.op = "task"

CEx_C15_ErrorDialogShown ==
    [][HandleException
          => /\ LogUnhandled \in logged'
             /\ exited' = exited
             /\ Len(dialogs') = Len(dialogs) + 1
             /\ dialogs'[Len(dialogs')].kind = "error"]_vars

\* --------------------------------------------------------------------- C16
\* C16: if dispatching the startup queries raises, the failure is logged
\* and exit is performed: the application ends, terminal_ready never runs.
Thm_C16_DispatchFailureFatal ==
    /\ [][(TaskStart("raise") /\ using_vt100)
             => /\ LogLoadError \in logged'
                /\ exited' = exited + 1
                /\ ready_runs' = 0
                /\ phase' = "failed"]_vars
    /\ [](phase = "failed" => (exited = 1 /\ ready_runs = 0))

\* The dispatch raised: logged, exited, never loaded.
Wit_C16_FailedAndExited ==
    phase = "failed" /\ exited = 1 /\ LogLoadError \in logged /\ queries_sent = 1

Thm_C18_Transformations ==
    /\ Len(style_transformation) = 2
    /\ style_transformation[1].name = "SetDefaultColor"
    /\ style_transformation[1].active <=> (config.color_scheme # "default")
    /\ style_transformation[2].name = "SwapLightAndDark"
    /\ style_transformation[2].active <=> (config.color_scheme = "inverse")

\* The scheme was set to "inverse": both transformations are active.
Wit_C18_InverseBothActive ==
    /\ lastOp.op = "update_style"
    /\ config.color_scheme = "inverse"
    /\ style_transformation[1].active
    /\ style_transformation[2].active

\* --------------------------------------------------------------------- C19
\* C19 (as stated): a tab leaves the collection only in the callback of its
\* own close: every step that removes a tab is the completion of a close
\* request on that very tab.
CEx_C19_RemovedOnlyAfterOwnClose ==
    [][Len(tabs') < Len(tabs)
          => \E r \in BagToSet(pending) :
                CloseComplete(r) /\ tabs' = RemoveFirst(tabs, r.tab)]_vars

\* --------------------------------------------------------------------- C20
\* The position in the trace of a side effect of terminal_ready
PosInTrace(name) ==
    IF \E i \in 1..Len(trace) : trace[i].ev = name
    THEN CHOOSE i \in 1..Len(trace) : trace[i].ev = name
    ELSE 0

\* C20 (as stated): on completion the render gate is released, then the
\* layout is installed, then the files are opened, then the post-load step
\* runs, then a repaint is requested.
CEx_C20_ReleaseFirst ==
    ready_runs >= 1
        => /\ 0 < PosInTrace("release")
           /\ PosInTrace("release") < PosInTrace("layout")
           /\ PosInTrace("layout") < PosInTrace("open_files")
           /\ PosInTrace("open_files") < PosInTrace("post_load")
           /\ PosInTrace("post_load") < PosInTrace("invalidate")

\* C20 (amended): on completion the layout is installed, then the files are
\* opened, then the post-load step runs, all with the render gate still
\* held; then the gate is released, and then a repaint is requested.
Thm_C20_ReleaseAfterLoading ==
    ready_runs >= 1
        => /\ 0 < PosInTrace("layout")
           /\ PosInTrace("layout") < PosInTrace("open_files")
           /\ PosInTrace("open_files") < PosInTrace("post_load")
           /\ PosInTrace("post_load") < PosInTrace("release")
           /\ PosInTrace("release") < PosInTrace("invalidate")
           /\ ~trace[PosInTrace("layout")].running
           /\ ~trace[PosInTrace("open_files")].running
           /\ ~trace[PosInTrace("post_load")].running
           /\ trace[PosInTrace("invalidate")].running

\* terminal_ready has run and opened files.
Wit_C20_LoadedWithFiles ==
    ready_runs = 1 /\ phase = "loaded" /\ Len(tabs) >= 2 /\ Len(trace) >= 5

\* --------------------------------------------------------------------- C21
\* C21 (as stated): with an interactive input, every run of the completion
\* step comes after the queries were dispatched and the task suspended for
\* the delay.
CEx_C21_AlwaysDispatchAndSleep ==
    [][(~input_closed /\ ready_runs' > ready_runs)
          => (queries_sent >= 1 /\ phase = "sleeping")]_vars

\* C21 (amended): with an interactive vt100 input, the completion step runs
\* only after the queries were dispatched and the task suspended for the
\* delay; with an interactive input that is not a vt100 one, no query is
\* dispatched and the task runs the completion step without suspending.
Thm_C21_DispatchAndSleepIfVt100 ==
    [][(~input_closed /\ ready_runs' > ready_runs)
          => IF using_vt100
             THEN queries_sent = 1 /\ queries_sent' = 1 /\ phase = "sleeping"
             ELSE queries_sent = 0 /\ queries_sent' = 0 /\ phase = "scheduled"]_vars

\* The completion step has run in the task of a vt100 input, after the
\* dispatch and the sleep.
Wit_C21_ReadyAfterSleep ==
    /\ ~input_closed
    /\ using_vt100
    /\ ready_runs = 1
    /\ queries_sent = 1
    /\ lastOp.op = "task"
    /\ is_running

\* --------------------------------------------------------------------- C22
\* C22: in a shutdown of n >= 1 tabs that runs alone and in which no tab
\* declines, the tabs are asked to close one after the other, each once,
\* from the last to the first; each is removed once, after its close
\* completed; the real exit is invoked once, by the completion of the close
\* of the last link (the first tab), when every tab has been removed.
Thm_C22_FullShutdown ==
    /\ [](\A c \in ChainIds :
            (chains[c].alone /\ chains[c].declined = {})
                => LET n == Len(chains[c].atExit)
                       asked == chains[c].asked
                       cleaned == chains[c].cleaned
                   IN  /\ Len(asked) <= n
                       /\ \A j \in 1..Len(asked) : asked[j] = FromLast(c, j)
                       /\ Len(cleaned) <= Len(asked)
                       /\ \A j \in 1..Len(cleaned) : cleaned[j] = FromLast(c, j)
                       /\ tabs = SubSeq(chains[c].atExit, 1, n - Len(cleaned))
                       /\ exited <= 1
                       /\ exited = 1 <=> Len(cleaned) = n
                       /\ exited = 1 => (Len(asked) = n /\ pending = EmptyBag))
    /\ [][\A c \in ChainIds :
            (chains[c].alone /\ exited' = exited + 1)
                => \E r \in BagToSet(pending) :
                      /\ r.chain = c
                      /\ r.cb = 0
                      /\ r.tab = chains[c].atExit[1]
                      /\ CloseComplete(r)]_vars

\* A shutdown of three tabs ran alone to the real exit.
Wit_C22_ThreeTabsClosed ==
    \E c \in ChainIds :
        /\ chains[c].alone
        /\ chains[c].declined = {}
        /\ chains[c].atExit = <<1, 2, 3>>
        /\ chains[c].cleaned = <<3, 2, 1>>
        /\ exited = 1

\* --------------------------------------------------------------------- C23
\* C23: on every dismissal the button's callback runs last, after the float
\* was removed, the flag cleared and the focus restoration attempted: a
\* callback that shows a dialog (ask_file again) finds no dialog showing and
\* captures the restored focus, a callback that opens a file works on the
\* restored focus and its own focus change is the one that stays, and
\* without a callback the dialog is removed, the flag is cleared and the
\* focus is the restored one.
Thm_C23_CallbackLast ==
    [][\A i \in 1..Len(dialogs) : \A r \in RawPaths :
          LET d1 == RemoveFloat(dialogs, i)
              f1 == RestoredFocus(dialogs[i].focused, focus, tabs, d1)
          IN  /\ Dismiss(i, "none", r)
                    => (dialogs' = d1 /\ ~has_dialog' /\ focus' = f1)
              /\ Dismiss(i, "reask", r)
                    => /\ has_dialog'
                       /\ dialogs' = Append(d1, [kind |-> "file", focused |-> f1])
                       /\ focus' = DlgText
              /\ Dismiss(i, "open", r)
                    => /\ ~has_dialog'
                       /\ dialogs' = d1
                       /\ focus' = OpenFileRes(tabs, tab_idx, f1, tabPath,
                                               created, r).focus]_vars

\* The OK button of the file dialog asked again: the old dialog is gone and
\* a new one is showing, which captured a tab's focus.
Wit_C23_AskedAgain ==
    /\ lastOp.op = "dismiss"
    /\ has_dialog
    /\ Len(dialogs) = 1
    /\ dialogs[1].kind = "file"
    /\ dialogs[1].focused \in 1..MaxTabs
    /\ focus = DlgText

\* --------------------------------------------------------------------- C24
\* The first characters, lower-cased, of the buttons of a kind of dialog
ShortcutKeys(kind) ==
    {Lower(Head(Buttons(kind)[b].text)) : b \in 1..Len(Buttons(kind))}

\* C24: while a dialog is displayed (focus inside it), Escape dismisses it
\* whether a button or the text field holds the focus; a button's first
\* character, lower-cased, dismisses it while no text field holds the
\* focus, and typed into the focused text field it leaves the dialog, the
\* flag and the focus as they are.
Thm_C24_ShortcutsNotInTextField ==
    [][(has_dialog /\ dialogs # <<>>)
          => LET top == Len(dialogs)
                 kind == dialogs[top].kind
                 d1 == RemoveFloat(dialogs, top)
                 f1 == RestoredFocus(dialogs[top].focused, focus, tabs, d1)
             IN  /\ KeyPress("escape")
                       => (dialogs' = d1 /\ ~has_dialog' /\ focus' = f1)
                 /\ \A key \in ShortcutKeys(kind) :
                       KeyPress(key)
                           => IF BufferHasFocus(focus)
                              THEN /\ UNCHANGED <<dialogs, has_dialog, focus>>
                                   /\ lastOp'.op = "key"
                              ELSE /\ lastOp'.op = "dismiss"
                                   /\ \/ dialogs' = d1 /\ ~has_dialog'
                                      \/ dialogs' = Append(d1, [kind |-> "file",
                                                                focused |-> f1])]_vars

\* A shortcut character was typed into the focused text field of the file
\* dialog, which is still showing.
Wit_C24_TypedIntoTextField ==
    /\ lastOp.op = "key"
    /\ has_dialog
    /\ focus = DlgText
    /\ BufferHasFocus(focus)
    /\ dialogs[Len(dialogs)].kind = "file"

\* --------------------------------------------------------------------- C25
\* The collection without the tab t, the other tabs in their order
Without(ts, t) == SelectSeq(ts, LAMBDA x : x # t)

ClampedIdx == IF tab_idx > Len(tabs) - 1
              THEN (IF Len(tabs) - 1 > 0 THEN Len(tabs) - 1 ELSE 0)
              ELSE (IF tab_idx > 0 THEN tab_idx ELSE 0)

\* C26: a read of the current tab made before the first paint (by
\* close_tab()) only clamps the cached index, whatever holds the focus; a
\* read made once a paint has happened (by close_tab() or by the paint
\* itself) sets the cached index to the tab that holds the focus when a tab
\* does, and only clamps it when none does.
Thm_C26_FocusWinsAfterPaint ==
    /\ [][(CloseTab(0) /\ tabs # <<>>)
             => IF render_counter > 0 /\ InSeq(focus, tabs)
                THEN tabs[tab_idx' + 1] = focus
                ELSE tab_idx' = ClampedIdx]_vars
    /\ [][(Paint /\ tabs # <<>>)
             => IF InSeq(focus, tabs)
                THEN tabs[tab_idx' + 1] = focus
                ELSE tab_idx' = ClampedIdx]_vars

\* Before any paint close_tab() read the current tab while another tab held
\* the focus: the cached index stayed and the tab asked to close is not the
\* focused one.
Wit_C26_CacheTrustedBeforePaint ==
    /\ render_counter = 0
    /\ lastOp = Op("call", "none")
    /\ Len(tabs) >= 2
    /\ InSeq(focus, tabs)
    /\ tab_idx \in 0..(Len(tabs) - 1)
    /\ focus # tabs[tab_idx + 1]
    /\ \E r \in BagToSet(pending) : r.chain = 0 /\ r.tab = tabs[tab_idx + 1]

\* --------------------------------------------------------------------- C27
\* C27: update_style writes a given syntax theme or colour scheme to the
\* configuration and leaves what it is not given as it was; a recomputation
\* triggered by a terminal event leaves the configuration alone; and after
\* either, the style and the transformation on the renderer are the ones
\* built from the configuration and the terminal colours as they are then.
Thm_C27_ConfigPersists ==
    [][/\ \A p \in {"none"} \cup SyntaxThemes : \A c \in {"none"} \cup Schemes :
             UpdateStyle(p, c)
                 => /\ config'.syntax_theme = IF p = "none" THEN config.syntax_theme ELSE p
                    /\ config'.color_scheme = IF c = "none" THEN config.color_scheme ELSE c
                    /\ config'.custom_foreground_color = config.custom_foreground_color
                    /\ config'.custom_background_color = config.custom_background_color
       /\ (\E c \in TermColorValues : TerminalResponse(c)) => config' = config
       /\ renderer_style' = StyleLayers(config', term_colors')
       /\ renderer_style'[1].of = config'.syntax_theme
       /\ style_transformation' = StyleTransformations(config', term_colors')]_vars

\* The syntax theme and the colour scheme were set through update_style,
\* and a later terminal event rebuilt the style with them.
Wit_C27_EventUsesWrittenConfig ==
    /\ lastOp.op = "response"
    /\ config.syntax_theme = "monokai"
    /\ config.color_scheme = "inverse"
    /\ renderer_style[1].of = "monokai"
    /\ style_transformation[2].active
    /\ term_colors # TermColorsInit

\* --------------------------------------------------------------------- C28
\* C28: update_style is subscribed to the colours event by pre_run, before
\* any query is dispatched, and every colours event read from then on,
\* while the render gate is held or after it was released, sets the value
\* and installs on the renderer the style rebuilt with it.
Thm_C28_SubscribedBeforeQueries ==
    /\ [](queries_sent > 0 => "colors" \in subscribed)
    /\ [][PreRun => ("colors" \in subscribed' /\ queries_sent' = 0)]_vars
    /\ [][\A c \in TermColorValues :
             TerminalResponse(c)
                 => /\ phase # "constructed"
                    /\ term_colors' = c
                    /\ renderer_style' = StyleLayers(config, c)
                    /\ style_transformation' = StyleTransformations(config, c)
                    /\ config' = config]_vars

\* After the loading completed a colours event changed the value and the
\* installed style follows it.
Wit_C28_EventAfterCompletion ==
    /\ phase = "loaded"
    /\ is_running
    /\ lastOp.op = "response"
    /\ term_colors # TermColorsInit
    /\ config.color_scheme = "default"
    /\ renderer_style[6].of.fg = term_colors.fg

\* --------------------------------------------------------------------- C29
\* C29: in the installed style the palette's foreground (background) is the
\* terminal's default one whenever the scheme has no pair of its own
\* ("inverse"), is "default", or is "custom" with that colour not
\* configured; a configured custom colour and the fixed pairs are used as
\* they are.
Thm_C29_FallbackToTerminalPair ==
    LET pal == renderer_style[6].of
        sch == config.color_scheme
    IN  /\ renderer_style[6].layer = "app"
        /\ sch \in {"default", "inverse"} => (pal.fg = term_colors.fg /\ pal.bg = term_colors.bg)
        /\ sch = "custom"
              => /\ pal.fg = IF config.custom_foreground_color = "" THEN term_colors.fg
                             ELSE config.custom_foreground_color
                 /\ pal.bg = IF config.custom_background_color = "" THEN term_colors.bg
                             ELSE config.custom_background_color
        /\ sch = "light" => (pal.fg = "#202020" /\ pal.bg = "#F0F0F0")
        /\ pal.fg # "" /\ pal.bg # ""

\* The "custom" scheme with only the background configured, after the
\* terminal answered: the foreground is the terminal's.
Wit_C29_CustomHalfConfigured ==
    /\ config.color_scheme = "custom"
    /\ config.custom_foreground_color = ""
    /\ config.custom_background_color # ""
    /\ term_colors # TermColorsInit
    /\ renderer_style[6].of.fg = term_colors.fg
    /\ renderer_style[6].of.bg = config.custom_background_color

\* --------------------------------------------------------------------- C30
\* C30 (as stated): once started, the polling task does not stop while the
\* application runs.
CEx_C30_NeverStops ==
    polling = "stopped" => exited > 0

\* C30 (amended): the polling task tests the configured interval before
\* each sleep.  While the interval is not zero it goes on: it sleeps, and
\* after each sleep it dispatches the background and foreground colour
\* queries and comes back to the test.  It ends, for good, only at a test
\* that finds the interval zero, which can be the first one.
Thm_C30_PollsWhileIntervalSet ==
    /\ [][polling' = "stopped"
             => (polling = "stopped" \/ (polling = "started" /\ polling_interval = 0))]_vars
    /\ [][polling = "stopped" => polling' = "stopped"]_vars
    /\ [][(polling = "sleeping" /\ polling' # "sleeping")
             => (polls' = polls + 1 /\ polling' = "started")]_vars
    /\ (polling = "sleeping") ~> (polling = "started" /\ lastOp.op = "poll_send")
    /\ (polling = "started" /\ polling_interval # 0 /\ polls < MaxPolls)
           ~> (polling = "sleeping" \/ polling_interval = 0)

\* The polling task has sent its second round of queries and is back at
\* its test.
Wit_C30_PolledTwice ==
    /\ polling = "started"
    /\ lastOp.op = "poll_send"
    /\ polls >= 2
    /\ polling_interval # 0
    /\ exited = 0

\* --------------------------------------------------------------------- C31
\* C31 (as stated): once terminal_ready has run, every registered post-load
\* hook has been invoked exactly once, in registration order, in the TUI
\* application as in the base application.
CEx_C31_HooksRunOnce ==
    ready_runs >= 1 => hooks_run = EuporieAppPostLoad(<<>>)

\* --------------------------------------------------------------------- C32
\* The render gate and the dialog flag, and what changes them
GateChanged == is_running' # is_running \/ cpr_futures' # cpr_futures

LifecycleStep == PreRun \/ (\E o \in {"ok", "raise"} : TaskStart(o)) \/ TaskWake

DialogStep ==
    \/ \E k \in {"info", "file"} : Dialog(k)
    \/ \E i \in 1..Len(dialogs) : \E b \in {"none", "open", "reask"} : Dismiss(i, b, 1)

OtherStep ==
    \/ OpenFile(1)
    \/ CloseTab(0)
    \/ \E r \in BagToSet(pending) : CloseComplete(r)
    \/ Exit
    \/ UpdateStyle("none", "none")

\* C32 (as stated): the render gate is changed only by pre_run and
\* terminal_ready and the dialog flag only by dialog() and its dismissal
\* handler; tab operations, the shutdown chain and style recomputation leave
\* both unchanged, and dialog display and dismissal leave the tab collection
\* and its cursor unchanged.
CEx_C32_DismissalLeavesTabs ==
    [][/\ GateChanged => LifecycleStep
       /\ has_dialog' # has_dialog => DialogStep
       /\ OtherStep => UNCHANGED <<is_running, cpr_futures, has_dialog>>
       /\ DialogStep => UNCHANGED <<tabs, tab_idx>>]_vars

\* C32 (amended): the render gate is changed only by pre_run (acquire) and
\* terminal_ready (release) and the dialog flag only by dialog() and its
\* dismissal handler; tab operations, the shutdown chain and style
\* recomputation leave both unchanged.  Dialog display, and a dismissal
\* whose button has no callback or whose callback asks again, leave the tab
\* collection and its cursor unchanged; the dismissal by the file prompt's
\* OK button changes them as the open_file its callback calls does.
Thm_C32_FrameButOpenCallback ==
    [][/\ GateChanged => LifecycleStep
       /\ (is_running /\ ~is_running') => PreRun
       /\ (~is_running /\ is_running') => (TaskWake \/ TaskStart("ok"))
       /\ has_dialog' # has_dialog => DialogStep
       /\ OtherStep => UNCHANGED <<is_running, cpr_futures, has_dialog, dialogs>>
       /\ DialogStep => UNCHANGED <<is_running, cpr_futures>>
       /\ \A k \in {"info", "file"} : Dialog(k) => UNCHANGED <<tabs, tab_idx, tabPath>>
       /\ \A i \in 1..Len(dialogs) :
             /\ \A b \in {"none", "reask"} :
                   Dismiss(i, b, 1) => UNCHANGED <<tabs, tab_idx, tabPath>>
             /\ Dismiss(i, "open", 1)
                   => LET d1 == RemoveFloat(dialogs, i)
                          f1 == RestoredFocus(dialogs[i].focused, focus, tabs, d1)
                          res == OpenFileRes(tabs, tab_idx, f1, tabPath, created, 1)
                      IN  tabs' = res.tabs /\ tab_idx' = res.idx]_vars

\* After a loading through the task, with a style recomputation made and a
\* close request outstanding, the file prompt was dismissed by its OK button
\* and the file was opened in a new tab.
Wit_C32_OpenedFromPrompt ==
    /\ lastOp.op = "dismiss"
    /\ ~has_dialog
    /\ ~input_closed
    /\ is_running
    /\ cpr_futures = 0
    /\ Len(builds) = 2
    /\ pending # EmptyBag
    /\ tabs # <<>>
    /\ tabs[Len(tabs)] = created
    /\ focus = created
    /\ created > Len(tabs)

\* --------------------------------------------------------------------- C33
\* C33 (as stated): open_file on a path that a tab of the collection already
\* has adds no tab and activates that tab: afterwards it holds the focus and
\* is the current tab.
CEx_C33_ExistingTabActivated ==
    [][\A r \in RawPaths : \A i \in 1..Len(tabs) :
          (OpenFile(r) /\ tabPath[tabs[i]] = ParsePath(r))
              => /\ tabs' = tabs
                 /\ focus' = tabs[i]
                 /\ CurrentTab(tabs', tab_idx', render_counter', focus') = tabs[i]]_vars

\* --------------------------------------------------------------------- C34
\* C34 (as stated): whenever a shutdown chain invokes the real exit, the tab
\* collection is empty and every tab the chain started from has completed
\* its close and been cleaned up, whatever other operations appended or
\* closed tabs while the chain was in flight.
CEx_C34_ExitOnlyWhenEmpty ==
    [][\A r \in BagToSet(pending) :
          (r.chain # 0 /\ CloseComplete(r) /\ exited' = exited + 1)
              => /\ tabs' = <<>>
                 /\ \A j \in 1..Len(chains[r.chain].atExit) :
                       InSeq(chains[r.chain].atExit[j], chains'[r.chain].cleaned)]_vars

\* --------------------------------------------------------------------- C35
\* The number of outstanding close requests made by chain c
Outstanding(c) ==
    LET R == {r \in BagToSet(pending) : r.chain = c}
    IN  IF R = {} THEN 0
        ELSE IF Cardinality(R) = 1 THEN CopiesIn(CHOOSE r \in R : TRUE, pending)
        ELSE 2

\* C35: a shutdown chain has at most one close request outstanding at any
\* moment, and it goes through the tabs it started from, from the last to
\* the first: when a tab is asked to close, every tab positioned after it
\* has been asked before it, has completed its close, has been cleaned up
\* by the chain and is no longer in the collection.
Thm_C35_OneAtATimeLastToFirst ==
    \A c \in ChainIds :
        LET asked == chains[c].asked
            cleaned == chains[c].cleaned
        IN  /\ Outstanding(c) <= 1
            /\ Len(asked) >= 1
            /\ Len(asked) <= Len(chains[c].atExit)
            /\ \A j \in 1..Len(asked) : asked[j] = FromLast(c, j)
            /\ Len(cleaned) >= Len(asked) - 1
            /\ \A k \in 1..(Len(asked) - 1) :
                  /\ cleaned[k] = FromLast(c, k)
                  /\ ~InSeq(FromLast(c, k), tabs)
            /\ \A r \in BagToSet(pending) :
                  r.chain = c => r.tab = asked[Len(asked)]

\* A chain over three tabs is at its second link: the last tab completed its
\* close and was removed, the middle one is being asked, the first one waits.
Wit_C35_SecondLinkAsked ==
    \E c \in ChainIds :
        /\ chains[c].atExit = <<1, 2, 3>>
        /\ chains[c].asked = <<3, 2>>
        /\ chains[c].cleaned = <<3>>
        /\ tabs = <<1, 2>>
        /\ Outstanding(c) = 1
        /\ \E r \in BagToSet(pending) : r.chain = c /\ r.tab = 2

\* --------------------------------------------------------------------- C36
\* C36: when the file prompt's OK handler finds that the file does not
\* exist, the dialog() its callback calls is not refused: the dismissed
\* prompt is gone, a new prompt is on top of the overlay list with the flag
\* set and the text field focused, and the focus it captured is the one the
\* dismissal had just restored (the control captured by the dismissed
\* prompt whenever that control is in the layout and focusable).
Thm_C36_CallbackDialogShown ==
    [][\A i \in 1..Len(dialogs) :
          Dismiss(i, "reask", 1)
              => LET d1 == RemoveFloat(dialogs, i)
                     captured == dialogs[i].focused
                     new == dialogs'[Len(dialogs')]
                 IN  /\ has_dialog
                     /\ has_dialog'
                     /\ Len(dialogs') = Len(d1) + 1
                     /\ SubSeq(dialogs', 1, Len(d1)) = d1
                     /\ new.kind = "file"
                     /\ focus' = DlgText
                     /\ new.focused = RestoredFocus(captured, focus, tabs, d1)
                     /\ CanFocus(captured, tabs, d1) => new.focused = captured]_vars

\* With no tab open the prompt asked again: the new prompt captured the
\* logo, which the dismissal had focused again.
Wit_C36_AskedAgainFromLogo ==
    /\ lastOp.op = "dismiss"
    /\ has_dialog
    /\ tabs = <<>>
    /\ dialogs = <<[kind |-> "file", focused |-> Logo]>>
    /\ focus = DlgText

\* --------------------------------------------------------------------- C37
\* C37 (as stated): cleanup_closed_tab is never invoked for a tab that is
\* not in the collection: whatever the interleaving of close_tab requests,
\* shutdown chains and completing closes, no close callback finds its tab
\* already removed, and list.remove never raises.
CEx_C37_CleanupOnlyPresent ==
    [][\A r \in BagToSet(pending) :
          (CloseComplete(r) /\ (r.chain = 0 \/ r.cb >= 1))
              => (InSeq(r.tab, tabs) /\ lastOp'.err # "ValueError")]_vars

\* --------------------------------------------------------------------- C38
\* C38: after any sequence of open_file calls, log views opened, close
\* requests and cleanups, no two tabs of the collection
\* that open_file created (the tabs that have a path) have the same parsed
\* path, and an open_file on a path for which there is no tab class leaves
\* the collection, the cursor and the focus as they were.
Thm_C38_NoDuplicatePaths ==
    /\ [](\A i \in 1..Len(tabs) : \A j \in 1..Len(tabs) :
            (i # j /\ tabPath[tabs[i]] # NoPath /\ tabPath[tabs[j]] # NoPath)
                => tabPath[tabs[i]] # tabPath[tabs[j]])
    /\ [][\A r \in RawPaths :
             (~GetFileTab(r) /\ OpenFile(r))
                 => UNCHANGED <<tabs, tab_idx, focus, tabPath, created>>]_vars
    /\ [][\A r \in RawPaths :
             (Len(tabs') > Len(tabs) /\ OpenFile(r))
                 => /\ tabs' = Append(tabs, created')
                    /\ tabPath'[created'] = ParsePath(r)
                    /\ \A i \in 1..Len(tabs) : tabPath[tabs[i]] # ParsePath(r)]_vars

\* The tab showing path 1 was closed and the path opened again: the new tab
\* is the only one with that path.
Wit_C38_ReopenedAfterClose ==
    /\ created = 3
    /\ tabs = <<2, 3>>
    /\ tabPath[2] = 2
    /\ tabPath[3] = 1
    /\ focus = 3

====
